---- MODULE Spec2Model ----
(***************************************************************************)
(* A model of the portfolio dashboard's ingestion and display core:        *)
(*   - the option contract symbol codec (parseOsiSymbol, buildOsiSymbol),  *)
(*   - importCsvFile: the detection of the format, the positions read    *)
(*     from a generic CSV or an account statement, the request sent,       *)
(*   - parseOptionDescription and the option identity of an imported row,  *)
(*   - the handlers that change the portfolio on the server, the requests  *)
(*     they send and the NAV refetch that follows,                         *)
(*   - the NAV snapshot store and its benchmark read path,                 *)
(*   - the strategy netting of positionsDisplay,                           *)
(*   - the percent-return lines of the portfolio chart,                    *)
(*   - parseCsvRows on the text of an account statement,                   *)
(*   - the market stream: its socket, its reconnect timer and the          *)
(*     marketConnected flag,                                               *)
(*   - the snapshot polling and the selected account,                      *)
(*   - the tabs, the hotkeys and the selected row of the positions table.  *)
(*                                                                         *)
(* Text is a string, read character by character (SubSeq, Head, Tail), so   *)
(* that trim, upper-casing, slicing, padding and the regular expressions   *)
(* are computed as the code computes them.  A strike is a number of        *)
(* ten-thousandths (1500000 is 150.0), so that the rounding to three       *)
(* decimals done by                                                        *)
(* Math.round(strike * 1000) is a real computation; a number is a record  *)
(* [fin, v]: a finite number v, or NaN and Infinity, which are not finite. *)
(***************************************************************************)
EXTENDS Integers, Sequences, FiniteSets, TLC

VARIABLES
    osiOp,        \* codec: "args" or "symbol" before a call, then the call made:
                  \*        "build", "parse", "roundtrip" (parse of the built symbol)
    osiArgs,      \* codec: the arguments of the last buildOsiSymbol call
    osiSymbol,    \* codec: the symbol built, or the symbol given to parseOsiSymbol
    osiParsed,    \* codec: the result of the last parseOsiSymbol call
    accountId,    \* import: the selected account, "ALL" for all accounts
    csvFile,      \* import: the rows parseCsvRows returns for the file chosen
    csvHandled,   \* import: the branch of importCsvFile the last call took
    csvError,     \* import: the error banner (setCsvError)
    requests,     \* import: the requests sent to the server, each pending, ok or failed
    navSnapshots, \* NAV store: the nav_snapshots table, a row for each (account, date)
    navOp,        \* NAV store: the last operation on the table and what it was given
    benchMap,     \* NAV series: the benchmark price cache, a level for each date
    navSeries,    \* NAV series: the series last returned, and the account it is for
    positions,    \* netting: the position rows of the snapshot
    strategyFilter,      \* netting: the text of the strategy filter
    collapsedStrategies, \* netting: the strategy ids whose legs are hidden
    displayed,    \* netting: the value of the positionsDisplay memo
    descInput,    \* description: the parts of the text given to
                  \*        parseOptionDescription, and the fallback underlying
    descParsed,   \* description: the result of the call, once made
    navRebuildRunning, \* operations: a NAV rebuild or clear is running
    navLimit,     \* operations: the number of NAV points the chart asks for
    navFetches,   \* operations: the requests fetchNav has made, in order
    chartProps,  \* chart: the data and showBench properties PortfolioChart is given
    chartLines, \* chart: the points last given to the portfolio and benchmark lines
    fileText, \* file: the text of the file dropped, as file.text() returns it
    marketSocket,  \* market stream: the place of the current WebSocket in webSockets, 0 for null
    marketSymbols,  \* market stream: the symbols of the last connection made
    reconnectTimer,  \* market stream: the id of the last reconnect timer, 0 for null
    reconnectAttempts,  \* market stream: the closes counted since the last connection made
    marketConnected,  \* market stream: the flag of the store
    webSockets,  \* market stream: every WebSocket created, its symbols and readyState
    timeouts, \* market stream: every reconnect timer set, its delay and whether it is pending
    snapshot,  \* snapshot: the snapshot of the store: the request it answers, or NoSnapshot
    snapshotRequests, \* snapshot: the requests of fetchSnapshot, each pending, done or failed
    staticMode,  \* dashboard: the build runs without broker connection (VITE_STATIC_MODE)
    tab,  \* dashboard: the active tab
    activeTable,  \* dashboard: the table the arrow keys move in: "watchlist", "positions" or "null"
    selectedPosIndex  \* dashboard: the selected row of the positions table, zero-based

codecVars == <<osiOp, osiArgs, osiSymbol, osiParsed>>
importVars == <<accountId, csvFile, csvHandled, csvError, requests>>
navStoreVars == <<navSnapshots, navOp>>
navSeriesVars == <<benchMap, navSeries>>
nettingVars == <<positions, strategyFilter, collapsedStrategies, displayed>>
descriptionVars == <<descInput, descParsed>>
operationVars == <<navRebuildRunning, navLimit, navFetches>>
chartVars == <<chartProps, chartLines>>
fileVars == <<fileText>>
marketVars == <<marketSocket, marketSymbols, reconnectTimer, reconnectAttempts, marketConnected, webSockets, timeouts>>
snapshotVars == <<snapshot, snapshotRequests>>
keyboardVars == <<staticMode, tab, activeTable, selectedPosIndex>>

vars == <<osiOp, osiArgs, osiSymbol, osiParsed,
          accountId, csvFile, csvHandled, csvError, requests,
          navSnapshots, navOp, benchMap, navSeries,
          positions, strategyFilter, collapsedStrategies, displayed,
          descInput, descParsed,
          navRebuildRunning, navLimit, navFetches,
          chartProps, chartLines,
          fileText,
          marketSocket, marketSymbols, reconnectTimer, reconnectAttempts, marketConnected, webSockets, timeouts,
          snapshot, snapshotRequests,
          staticMode, tab, activeTable, selectedPosIndex>>

NULL == "null"

\* JavaScript numbers: a finite value, NaN, or Infinity
Num(n) == [fin |-> TRUE, v |-> n]
NaN == [fin |-> FALSE, v |-> 0]
Infinity == [fin |-> FALSE, v |-> 1]

\* a value of JavaScript that || passes over: 0 and NaN among the numbers
Truthy(x) == x # Num(0) /\ x # NaN

\* the element of a set of one element: {e(x) : x \in {v}} is the value of a
\* block in which the constant x was given the value v
Only(S) == CHOOSE x \in S : TRUE

(***************************************************************************)
(* Characters and strings                                                  *)
(***************************************************************************)
LowerSeq == <<"a","b","c","d","e","f","g","h","i","j","k","l","m",
              "n","o","p","q","r","s","t","u","v","w","x","y","z">>
UpperSeq == <<"A","B","C","D","E","F","G","H","I","J","K","L","M",
              "N","O","P","Q","R","S","T","U","V","W","X","Y","Z">>
DigitSeq == <<"0","1","2","3","4","5","6","7","8","9">>

Range(f) == {f[i] : i \in DOMAIN f}

UpperLetters == Range(UpperSeq)
LowerLetters == Range(LowerSeq)
Digits == Range(DigitSeq)
Whitespace == {" "}

\* s[i - 1] of JavaScript: the i-th character, a string of length one
CharAt(s, i) == SubSeq(s, i, i)

\* String.prototype.toUpperCase, one character
ToUpperChar(c) ==
    IF c \in LowerLetters
    THEN UpperSeq[CHOOSE i \in DOMAIN LowerSeq : LowerSeq[i] = c]
    ELSE c

\* String.prototype.toUpperCase
RECURSIVE ToUpper(_)
ToUpper(s) ==
    IF s = "" THEN ""
    ELSE IF Len(s) = 1 THEN ToUpperChar(s)
    ELSE ToUpper(SubSeq(s, 1, Len(s) \div 2)) \o ToUpper(SubSeq(s, Len(s) \div 2 + 1, Len(s)))

\* String.prototype.trim
Trim(s) ==
    LET keep == {i \in 1..Len(s) : CharAt(s, i) \notin Whitespace}
    IN  IF keep = {} THEN ""
        ELSE SubSeq(s, CHOOSE i \in keep : \A j \in keep : i <= j,
                       CHOOSE i \in keep : \A j \in keep : j <= i)

\* s.replaceAll("-", "")
RECURSIVE RemoveDashes(_)
RemoveDashes(s) ==
    IF s = "" THEN ""
    ELSE IF Len(s) = 1 THEN (IF s = "-" THEN "" ELSE s)
    ELSE RemoveDashes(SubSeq(s, 1, Len(s) \div 2))
         \o RemoveDashes(SubSeq(s, Len(s) \div 2 + 1, Len(s)))

\* s.slice(from) with from >= 0, zero-based
SliceFrom(s, from) == SubSeq(s, from + 1, Len(s))

\* every character of s is in the class
AllIn(s, class) == \A i \in 1..Len(s) : CharAt(s, i) \in class

DigitVal(c) == (CHOOSE i \in DOMAIN DigitSeq : DigitSeq[i] = c) - 1

\* Number("00150000") for a string of decimal digits
RECURSIVE DigitsToNat(_)
DigitsToNat(s) ==
    IF s = "" THEN 0
    ELSE 10 * DigitsToNat(SubSeq(s, 1, Len(s) - 1)) + DigitVal(CharAt(s, Len(s)))

\* Number.prototype.toString for an integer
RECURSIVE NatToDigits(_)
NatToDigits(n) ==
    IF n < 10 THEN DigitSeq[n + 1]
    ELSE NatToDigits(n \div 10) \o DigitSeq[(n % 10) + 1]

IntToString(n) == IF n < 0 THEN "-" \o NatToDigits(-n) ELSE NatToDigits(n)

\* s.padStart(width, "0")
RECURSIVE PadStart(_, _)
PadStart(s, width) == IF Len(s) >= width THEN s ELSE PadStart("0" \o s, width)

\* Number.isFinite
IsFinite(x) == x.fin

\* a slip of the scale: Math.round(x * 100)
RoundHundredths(x) == (x.v + 50) \div 100

\* Math.round(x * 1000) for x in ten-thousandths: halves round towards +Infinity
RoundMillis(x) == (x.v + 5) \div 10

(***************************************************************************)
(* The contract symbol codec                                               *)
(***************************************************************************)

\* /^([A-Z0-9]{1,6})(\d{6})([CP])(\d{8})$/ : the lengths the first group can
\* take in a match of s (the other groups are of fixed width)
OsiMatchLens(s) ==
    {k \in 1..6 :
        /\ Len(s) = k + 15
        /\ AllIn(SubSeq(s, 1, k), UpperLetters \cup Digits)
        /\ AllIn(SubSeq(s, k + 1, k + 6), Digits)
        /\ CharAt(s, k + 7) \in {"C", "P"}
        /\ AllIn(SubSeq(s, k + 8, k + 15), Digits)}

\* the null that parseOsiSymbol returns when the pattern does not match
NoMatch == [ok |-> FALSE, underlying |-> "", expiry |-> "", option_type |-> "",
            strike |-> NaN]

\* a slip: the pattern applied to the symbol as given, neither trimmed nor upper-cased
parseOsiSymbolAsGiven(symbol) ==
    IF OsiMatchLens(symbol) = {} THEN NoMatch
    ELSE LET k == CHOOSE n \in OsiMatchLens(symbol) : TRUE
         IN  [ok          |-> TRUE,
              underlying  |-> SubSeq(symbol, 1, k),
              expiry      |-> "20" \o SubSeq(symbol, k + 1, k + 2) \o "-"
                                \o SubSeq(symbol, k + 3, k + 4) \o "-"
                                \o SubSeq(symbol, k + 5, k + 6),
              option_type |-> IF CharAt(symbol, k + 7) = "C" THEN "CALL" ELSE "PUT",
              strike      |-> Num(DigitsToNat(SubSeq(symbol, k + 8, k + 15)) * 10)]

parseOsiSymbol(symbol) ==
    LET s == ToUpper(Trim(symbol))
        lens == OsiMatchLens(s)
    IN  IF lens = {} THEN NoMatch
        ELSE LET k == CHOOSE n \in lens : \A m \in lens : m <= n
                 date == SubSeq(s, k + 1, k + 6)
             IN  [ok          |-> TRUE,
                  underlying  |-> SubSeq(s, 1, k),
                  expiry      |-> "20" \o SubSeq(date, 1, 2) \o "-"
                                    \o SubSeq(date, 3, 4) \o "-" \o SubSeq(date, 5, 6),
                  option_type |-> IF CharAt(s, k + 7) = "C" THEN "CALL" ELSE "PUT",
                  strike      |-> Num(DigitsToNat(SubSeq(s, k + 8, k + 15)) * 10)]

buildOsiSymbol(underlying, expiry, right, strike) ==
    LET u == ToUpper(Trim(underlying))
        exp == Trim(expiry)
        ymd == SliceFrom(RemoveDashes(exp), 2)
    IN  IF u = "" \/ exp = "" \/ right = "" \/ ~IsFinite(strike) THEN ""
        ELSE IF Len(ymd) # 6 THEN ""
        ELSE u \o ymd
               \o (IF ToUpper(right) = "P" THEN "P" ELSE "C")
               \o PadStart(IntToString(RoundMillis(strike)), 8)

(***************************************************************************)
(* Inputs of the codec                                                     *)
(***************************************************************************)
UnderlyingInputs == { "", "A", "AAPL", "aapl", "BRKB12", "GOOGLE1", "BRK.B", " SPY " }

ExpiryInputs ==
    { "", "2026-01-17", "2099-12-31", "1999-01-17", "2100-06-30", "20260117", "2026-1-7" }

RightInputs == { "", "C", "P", "p", "CALL", "PUT", "X" }

\* in ten-thousandths: -5, 0, 0.001, 2.5005, 150, 150.5, 99999.999, 100000
StrikeInputs ==
    { NaN, Infinity } \cup
    { Num(n) : n \in {-50000, 0, 10, 25005, 1500000, 1505000, 999999990, 1000000000} }

NoArgs == [underlying |-> "", expiry |-> "", right |-> "", strike |-> NaN]

Pads == { "", " " }

SymbolRoots == { "", "A", "aapl", "BRKB12", "GOOGLE1", "BRK.B" }
SymbolDates == { "260117", "26011", "2601A7" }
SymbolRights == { "", "C", "P", "c", "p", "X" }
SymbolStrikes == { "00150000", "0015000", "000150000", "000-5000", "00150.00", "12345678" }

(***************************************************************************)
(* The codec's calls                                                       *)
(***************************************************************************)
\* the call of buildOsiSymbol
BuildOsi ==
    /\ osiOp = "args"
    /\ osiOp' = "build"
    /\ osiSymbol' = buildOsiSymbol(osiArgs.underlying, osiArgs.expiry, osiArgs.right,
                                   osiArgs.strike)
    /\ UNCHANGED <<osiArgs, osiParsed>>
    /\ UNCHANGED <<importVars, navStoreVars, navSeriesVars, nettingVars, descriptionVars, operationVars, chartVars, fileVars, marketVars, snapshotVars, keyboardVars>>

\* the call of parseOsiSymbol on a symbol typed or imported
ParseOsi ==
    /\ osiOp = "symbol"
    /\ osiOp' = "parse"
    /\ osiParsed' = parseOsiSymbol(osiSymbol)
    /\ UNCHANGED <<osiArgs, osiSymbol>>
    /\ UNCHANGED <<importVars, navStoreVars, navSeriesVars, nettingVars, descriptionVars, operationVars, chartVars, fileVars, marketVars, snapshotVars, keyboardVars>>

\* parseOsiSymbol applied to the symbol buildOsiSymbol returned
ParseBuilt ==
    /\ osiOp = "build"
    /\ osiOp' = "roundtrip"
    /\ osiParsed' = parseOsiSymbol(osiSymbol)
    /\ UNCHANGED <<osiArgs, osiSymbol>>
    /\ UNCHANGED <<importVars, navStoreVars, navSeriesVars, nettingVars, descriptionVars, operationVars, chartVars, fileVars, marketVars, snapshotVars, keyboardVars>>

CodecNext == BuildOsi \/ ParseOsi \/ ParseBuilt

(***************************************************************************)
(* More of String.prototype, for the CSV import                            *)
(***************************************************************************)
\* stands for the byte-order mark U+FEFF
Bom == "^"

ToLowerChar(c) ==
    IF c \in UpperLetters
    THEN LowerSeq[CHOOSE i \in DOMAIN UpperSeq : UpperSeq[i] = c]
    ELSE c

\* String.prototype.toLowerCase
RECURSIVE ToLower(_)
ToLower(s) ==
    IF s = "" THEN ""
    ELSE IF Len(s) = 1 THEN ToLowerChar(s)
    ELSE ToLower(SubSeq(s, 1, Len(s) \div 2)) \o ToLower(SubSeq(s, Len(s) \div 2 + 1, Len(s)))

\* s.includes(part)
Includes(s, part) ==
    \E i \in 1..(Len(s) - Len(part) + 1) : SubSeq(s, i, i + Len(part) - 1) = part

\* cells.join(" ")
RECURSIVE JoinCells(_)
JoinCells(cells) ==
    IF cells = <<>> THEN ""
    ELSE IF Len(cells) = 1 THEN cells[1]
    ELSE cells[1] \o " " \o JoinCells(Tail(cells))

\* every character outside the class removed: s.replace(/[...]/g, "")
RECURSIVE RemoveChars(_, _)
RemoveChars(s, class) ==
    IF s = "" THEN ""
    ELSE IF Len(s) = 1 THEN (IF s \in class THEN "" ELSE s)
    ELSE RemoveChars(SubSeq(s, 1, Len(s) \div 2), class)
         \o RemoveChars(SubSeq(s, Len(s) \div 2 + 1, Len(s)), class)

stripBom(value) == IF value # "" /\ Head(value) = Bom THEN Tail(value) ELSE value

\* s.replace(/[^a-z0-9]+/g, "_"): each run of other characters becomes one underscore
RECURSIVE UnderscoreRuns(_, _)
UnderscoreRuns(s, inRun) ==
    IF s = "" THEN ""
    ELSE IF Head(s) \in LowerLetters \cup Digits
         THEN Head(s) \o UnderscoreRuns(Tail(s), FALSE)
         ELSE (IF inRun THEN "" ELSE "_") \o UnderscoreRuns(Tail(s), TRUE)

\* s.replace(/^_+|_+$/g, "")
StripUnderscores(s) ==
    LET keep == {i \in 1..Len(s) : CharAt(s, i) # "_"}
    IN  IF keep = {} THEN ""
        ELSE SubSeq(s, CHOOSE i \in keep : \A j \in keep : i <= j,
                       CHOOSE i \in keep : \A j \in keep : j <= i)

normalizeHeader(key) ==
    StripUnderscores(UnderscoreRuns(Trim(ToLower(stripBom(key))), FALSE))

\* Number(whole + "." + frac) for two runs of decimal digits, in ten-thousandths
\* (at most 4 decimals are kept); NaN when there is no digit or another character
DecimalOf(whole, frac) ==
    IF whole \o frac = "" \/ ~AllIn(whole \o frac, Digits) THEN NaN
    ELSE Num(DigitsToNat(whole) * 10000 + DigitsToNat(SubSeq(frac \o "0000", 1, 4)))

\* the place of the decimal point: past the end without one, 0 with several
DotAt(body) ==
    LET dots == {i \in 1..Len(body) : CharAt(body, i) = "."}
    IN  IF dots = {} THEN Len(body) + 1
        ELSE IF Cardinality(dots) > 1 THEN 0
        ELSE CHOOSE i \in dots : TRUE

SplitAt(body, dot) ==
    IF dot = 0 THEN NaN
    ELSE DecimalOf(SubSeq(body, 1, dot - 1), SubSeq(body, dot + 1, Len(body)))

\* Number(body) for an unsigned decimal notation
Unsigned(body) == SplitAt(body, DotAt(body))

\* -x
Negate(x) == IF IsFinite(x) THEN Num(-x.v) ELSE x

\* Number(t) for a text without surrounding whitespace
NumberOf(t) ==
    IF t = "" THEN Num(0)
    ELSE IF Head(t) = "-" THEN Negate(Unsigned(Tail(t)))
    ELSE Unsigned(IF Head(t) = "+" THEN Tail(t) ELSE t)

\* Number(text) for the decimal notation [+-]digits[.digits]; the empty text is
\* 0 and any other text NaN
JsNumber(text) == NumberOf(Trim(text))

\* /^\(.*\)$/.test(trimmed)
InParentheses(trimmed) ==
    Len(trimmed) >= 2 /\ Head(trimmed) = "(" /\ CharAt(trimmed, Len(trimmed)) = ")"

\* the last two lines of parseNumber
SignedValue(value, negative) ==
    IF ~IsFinite(value) THEN NaN
    ELSE IF negative THEN Negate(value) ELSE value

\* parseNumber from its second line on
ParseTrimmed(trimmed) ==
    IF trimmed = "" THEN NaN
    ELSE SignedValue(JsNumber(RemoveChars(RemoveChars(trimmed, {",", "$", "%"}), {"(", ")"})),
                     InParentheses(trimmed))

parseNumber(raw) == IF raw = "" THEN NaN ELSE ParseTrimmed(Trim(raw))

(***************************************************************************)
(* Option descriptions: normalizeExpiryInput and parseOptionDescription    *)
(***************************************************************************)
\* a text of three runs of digits, of the given lengths, with the separator
\* between them
IsDateShape(s, a, b, c, sep) ==
    /\ Len(s) = a + b + c + 2
    /\ AllIn(SubSeq(s, 1, a), Digits)
    /\ CharAt(s, a + 1) \in sep
    /\ AllIn(SubSeq(s, a + 2, a + b + 1), Digits)
    /\ CharAt(s, a + b + 2) \in sep
    /\ AllIn(SubSeq(s, a + b + 3, a + b + c + 2), Digits)

\* MM-DD-YYYY or MM/DD/YYYY as YYYY-MM-DD
LongYearFirst(raw) == SubSeq(raw, 7, 10) \o "-" \o SubSeq(raw, 1, 2) \o "-" \o SubSeq(raw, 4, 5)

\* MM-DD-YY or MM/DD/YY as 20YY-MM-DD
ShortYearFirst(raw) ==
    "20" \o SubSeq(raw, 7, 8) \o "-" \o SubSeq(raw, 1, 2) \o "-" \o SubSeq(raw, 4, 5)

NormalizeTrimmed(raw) ==
    IF raw = "" THEN ""
    ELSE IF IsDateShape(raw, 4, 2, 2, {"-"}) THEN raw
    ELSE IF IsDateShape(raw, 2, 2, 4, {"-"}) THEN LongYearFirst(raw)
    ELSE IF IsDateShape(raw, 2, 2, 2, {"-"}) THEN ShortYearFirst(raw)
    ELSE IF IsDateShape(raw, 2, 2, 4, {"/"}) THEN LongYearFirst(raw)
    ELSE IF IsDateShape(raw, 2, 2, 2, {"/"}) THEN ShortYearFirst(raw)
    ELSE raw

normalizeExpiryInput(value) == NormalizeTrimmed(Trim(value))

\* the words of a text: what \s+ separates, once the text is trimmed and its
\* runs of whitespace are replaced by one space
WordsFrom(s, starts) ==
    [n \in 1..Cardinality(starts) |->
        LET from == CHOOSE i \in starts : Cardinality({j \in starts : j < i}) = n - 1
            to == CHOOSE j \in from..Len(s) :
                      /\ \A k \in from..j : CharAt(s, k) \notin Whitespace
                      /\ (j = Len(s) \/ CharAt(s, j + 1) \in Whitespace)
        IN  SubSeq(s, from, to)] \o <<>>

Words(s) ==
    WordsFrom(s, {i \in 1..Len(s) : /\ CharAt(s, i) \notin Whitespace
                                     /\ (i = 1 \/ CharAt(s, i - 1) \in Whitespace)})

\* \d+
IsDigits(t) == t # "" /\ AllIn(t, Digits)

\* [A-Z0-9]{1,6}
IsRoot(t) == Len(t) \in 1..6 /\ AllIn(t, UpperLetters \cup Digits)

\* \d{1,2}[\/-]\d{1,2}[\/-]\d{2,4}
IsNumericDate(t) ==
    \E a \in 1..2, b \in 1..2, c \in 2..4 : IsDateShape(t, a, b, c, {"/", "-"})

\* \d+(?:\.\d+)?
IsDecimal(t) ==
    \/ IsDigits(t)
    \/ \E k \in 2..(Len(t) - 1) :
           /\ CharAt(t, k) = "."
           /\ IsDigits(SubSeq(t, 1, k - 1))
           /\ IsDigits(SubSeq(t, k + 1, Len(t)))

\* \b after the right: the end of the text or a character that is not of a word
AtWordEnd(rest) == rest = "" \/ Head(rest) \notin (UpperLetters \cup Digits \cup {"_"})

\* whether the text starts with the word, at a word end
StartsWord(t, word) ==
    /\ Len(t) >= Len(word)
    /\ SubSeq(t, 1, Len(word)) = word
    /\ AtWordEnd(SubSeq(t, Len(word) + 1, Len(t)))

\* (CALL|PUT|[CP])\b at the start of a text: what it matches, "" when nothing
RightAt(t) ==
    IF StartsWord(t, "CALL") THEN "CALL"
    ELSE IF StartsWord(t, "PUT") THEN "PUT"
    ELSE IF StartsWord(t, "C") THEN "C"
    ELSE IF StartsWord(t, "P") THEN "P"
    ELSE ""

\* where a word splits into a strike and a right that follows it at once
StrikeSplits(t) ==
    {k \in 1..(Len(t) - 1) :
        IsDecimal(SubSeq(t, 1, k)) /\ RightAt(SubSeq(t, k + 1, Len(t))) # ""}

NoStrikeRight == [ok |-> FALSE, strike |-> "", right |-> ""]

\* a strike and a right in one word
JoinedStrikeRight(t, k) ==
    [ok |-> TRUE, strike |-> SubSeq(t, 1, k), right |-> RightAt(SubSeq(t, k + 1, Len(t)))]

\* (\d+(?:\.\d+)?)\s*(CALL|PUT|[CP])\b from the word at p on
StrikeRightAt(toks, p) ==
    IF p > Len(toks) THEN NoStrikeRight
    ELSE IF IsDecimal(toks[p])
    THEN (IF p + 1 <= Len(toks) /\ RightAt(toks[p + 1]) # ""
          THEN [ok |-> TRUE, strike |-> toks[p], right |-> RightAt(toks[p + 1])]
          ELSE NoStrikeRight)
    ELSE IF StrikeSplits(toks[p]) # {}
    THEN JoinedStrikeRight(toks[p], CHOOSE k \in StrikeSplits(toks[p]) : TRUE)
    ELSE NoStrikeRight

\* the date, strike and right of the numeric form, the date being the word at d
NumericTail(toks, d) ==
    d \in 1..Len(toks) /\ IsNumericDate(toks[d]) /\ StrikeRightAt(toks, d + 1).ok

\* the date, strike and right of the month form: day, month name and year are
\* the words from d on
MonthTail(toks, d) ==
    /\ d >= 1 /\ d + 2 <= Len(toks)
    /\ Len(toks[d]) \in 1..2 /\ AllIn(toks[d], Digits)
    /\ Len(toks[d + 1]) = 3 /\ AllIn(toks[d + 1], UpperLetters)
    /\ Len(toks[d + 2]) \in 2..4 /\ AllIn(toks[d + 2], Digits)
    /\ StrikeRightAt(toks, d + 3).ok

\* the ways the optional quantities (?:\d+\s+)? can be taken, in the order the
\* matcher tries them: the words q are quantities, the word u is the underlying
\* (0 when the form has none) and the date starts at the word d
UnderlyingLayouts ==
    << [q |-> {1, 3}, u |-> 2, d |-> 4], [q |-> {1}, u |-> 2, d |-> 3],
       [q |-> {2}, u |-> 1, d |-> 3],    [q |-> {}, u |-> 1, d |-> 2] >>

NoUnderlyingLayouts == << [q |-> {1}, u |-> 0, d |-> 2], [q |-> {}, u |-> 0, d |-> 1] >>

\* whether the words match a form in a layout
LayoutFits(toks, layout, form) ==
    /\ \A i \in layout.q : i <= Len(toks) /\ IsDigits(toks[i])
    /\ layout.u # 0 => layout.u <= Len(toks) /\ IsRoot(toks[layout.u])
    /\ IF form = "numeric" THEN NumericTail(toks, layout.d) ELSE MonthTail(toks, layout.d)

\* String.prototype.match: the first layout that fits, 0 when none does
MatchOf(toks, layouts, form) ==
    IF \A i \in 1..Len(layouts) : ~LayoutFits(toks, layouts[i], form) THEN 0
    ELSE CHOOSE i \in 1..Len(layouts) :
             /\ LayoutFits(toks, layouts[i], form)
             /\ \A j \in 1..(i - 1) : ~LayoutFits(toks, layouts[j], form)

MonthNames == <<"JAN", "FEB", "MAR", "APR", "MAY", "JUN",
                "JUL", "AUG", "SEP", "OCT", "NOV", "DEC">>

\* monthMap[monthKey], "" for a name that is not of a month
MonthNumber(monthKey) ==
    IF monthKey \notin Range(MonthNames) THEN ""
    ELSE PadStart(NatToDigits(CHOOSE i \in 1..12 : MonthNames[i] = monthKey), 2)

\* the expiry of the month form: `${year}-${month}-${day}`, "" without a month
MonthExpiry(day, monthKey, yearRaw) ==
    IF MonthNumber(monthKey) = "" THEN ""
    ELSE (IF Len(yearRaw) = 2 THEN "20" \o yearRaw ELSE yearRaw)
         \o "-" \o MonthNumber(monthKey) \o "-" \o PadStart(day, 2)

\* the expiry of a match: of the numeric form by normalizeExpiryInput
ExpiryOf(toks, d, form) ==
    IF form = "numeric" THEN normalizeExpiryInput(toks[d])
    ELSE MonthExpiry(toks[d], toks[d + 1], toks[d + 2])

\* the null that parseOptionDescription returns
NoDescription == [ok |-> FALSE, symbol |-> "", underlying |-> "", expiry |-> "",
                  strike |-> NaN, option_type |-> ""]

\* the end of parseOptionDescription: the symbol is built, and null is returned
\* when it cannot be
Described(underlying, expiry, right, strike) ==
    IF buildOsiSymbol(underlying, expiry, right, strike) = "" THEN NoDescription
    ELSE [ok |-> TRUE, symbol |-> buildOsiSymbol(underlying, expiry, right, strike),
          underlying |-> underlying, expiry |-> expiry, strike |-> strike,
          option_type |-> IF right = "P" THEN "PUT" ELSE "CALL"]

\* the fields of a match of a form, the strike and right being those after the
\* date
DescribedAt(toks, underlying, d, form, tail) ==
    Described(underlying, ExpiryOf(toks, d, form), 
              IF Head(StrikeRightAt(toks, tail).right) = "P" THEN "P" ELSE "C",
              JsNumber(StrikeRightAt(toks, tail).strike))

DescribedBy(toks, underlying, layout, form) ==
    DescribedAt(toks, underlying, layout.d, form,
                IF form = "numeric" THEN layout.d + 1 ELSE layout.d + 3)

\* the four patterns in the order of the if-chain: with an underlying in the
\* numeric and the month form, then without one, when a fallback is given
DescriptionOf(toks, fallbackUnderlying) ==
    IF toks = <<>> THEN NoDescription
    ELSE IF MatchOf(toks, UnderlyingLayouts, "numeric") # 0
    THEN DescribedBy(toks, toks[UnderlyingLayouts[MatchOf(toks, UnderlyingLayouts, "numeric")].u],
                     UnderlyingLayouts[MatchOf(toks, UnderlyingLayouts, "numeric")], "numeric")
    ELSE IF MatchOf(toks, UnderlyingLayouts, "month") # 0
    THEN DescribedBy(toks, toks[UnderlyingLayouts[MatchOf(toks, UnderlyingLayouts, "month")].u],
                     UnderlyingLayouts[MatchOf(toks, UnderlyingLayouts, "month")], "month")
    ELSE IF MatchOf(toks, NoUnderlyingLayouts, "numeric") # 0 /\ fallbackUnderlying # ""
    THEN DescribedBy(toks, ToUpper(fallbackUnderlying),
                     NoUnderlyingLayouts[MatchOf(toks, NoUnderlyingLayouts, "numeric")], "numeric")
    ELSE IF MatchOf(toks, NoUnderlyingLayouts, "month") # 0 /\ fallbackUnderlying # ""
    THEN DescribedBy(toks, ToUpper(fallbackUnderlying),
                     NoUnderlyingLayouts[MatchOf(toks, NoUnderlyingLayouts, "month")], "month")
    ELSE NoDescription

parseOptionDescription(raw, fallbackUnderlying) ==
    Only({ DescriptionOf(toks, fallbackUnderlying) : toks \in {Words(ToUpper(raw))} })

\* the parts a description is written from: the quantities and the underlying
\* (each with the space after it, or missing), the date, and the strike and right
DescriptionParts ==
    [qty : {"", "3 "}, underlying : {"AAPL ", "spy "}, legQty : {"", "2 "},
     date : {"01/17/2026", "17 Jan 26", "1/7/26"},
     strikeRight : {"150 CALL", "150.5P", "150 X"}]
    \cup [qty : {"", "3 "}, underlying : {""}, legQty : {""},
          date : {"01/17/2026", "17 Jan 26", "1/7/26"},
          strikeRight : {"150 CALL", "150.5P", "150 X"}]

FallbackInputs == {"", "MSFT", "msft"}

\* the text of a description
DescriptionText(parts) ==
    parts.qty \o parts.underlying \o parts.legQty \o parts.date \o " " \o parts.strikeRight

NoDescriptionInput ==
    [parts |-> [qty |-> "", underlying |-> "", legQty |-> "", date |-> "",
                strikeRight |-> ""],
     fallback |-> ""]

\* no call made yet
NotParsed == [NoDescription EXCEPT !.option_type = "?"]

\* the call parseOptionDescription(raw, fallbackUnderlying)
ParseOptionDescription ==
    /\ descParsed = NotParsed
    /\ descInput # NoDescriptionInput
    /\ descParsed' = parseOptionDescription(DescriptionText(descInput.parts),
                                            descInput.fallback)
    /\ UNCHANGED descInput
    /\ UNCHANGED <<codecVars, importVars, navStoreVars, navSeriesVars, nettingVars, operationVars, chartVars, fileVars, marketVars, snapshotVars, keyboardVars>>

DescriptionNext == ParseOptionDescription

(***************************************************************************)
(* importCsvFile: format detection                                         *)
(***************************************************************************)
\* rawRows.slice(0, 20): the rows scanned for marker phrases
ScanRows == 20

Min(a, b) == IF a < b THEN a ELSE b

\* rawRows[0].map((cell) => stripBom(cell || "").toLowerCase().trim())
headerRow(rawRows) == [i \in 1..Len(rawRows[1]) |-> Trim(ToLower(stripBom(rawRows[1][i])))]

\* each of the first rows as one lower-case text, its cells joined by a space
firstRows(rawRows) ==
    [i \in 1..Min(ScanRows, Len(rawRows)) |->
        JoinCells([j \in 1..Len(rawRows[i]) |-> ToLower(stripBom(rawRows[i][j]))])]

isTransactionsCsv(rawRows) ==
    LET header == Range(headerRow(rawRows))
    IN  /\ "action" \in header
        /\ "amount" \in header
        /\ "quantity" \in header
        /\ \E cell \in header : Includes(cell, "fees")

isBalancesReport(rawRows) ==
    LET texts == Range(firstRows(rawRows))
    IN  \/ \E rowText \in texts :
              \/ Includes(rowText, "balances for all-accounts")
              \/ Includes(rowText, "balances for all accounts")
        \/ \E rowText \in texts :
              /\ Includes(rowText, "total accounts value")
              /\ Includes(rowText, "cash & cash investments total")

isAccountStatement(rawRows) ==
    \E rowText \in Range(firstRows(rawRows)) : Includes(rowText, "account statement")

isPositionsReport(rawRows) ==
    \E rowText \in Range(firstRows(rawRows)) :
        Includes(rowText, "positions for") \/ Includes(rowText, "custaccs")

\* the order the specification gives: transactions, balances, statement, positions
detectFormatTransactionsFirst(rawRows) ==
    IF isTransactionsCsv(rawRows) THEN "transactions"
    ELSE IF isBalancesReport(rawRows) THEN "balances"
    ELSE IF isAccountStatement(rawRows) THEN "statement"
    ELSE IF isPositionsReport(rawRows) THEN "positions"
    ELSE "generic"

\* the branch importCsvFile takes for a file with rows: the if statements in
\* the order they are written
detectFormat(rawRows) ==
    IF isBalancesReport(rawRows) THEN "balances"
    ELSE IF isPositionsReport(rawRows) THEN "positions"
    ELSE IF isTransactionsCsv(rawRows) THEN "transactions"
    ELSE IF isAccountStatement(rawRows) THEN "statement"
    ELSE "generic"

(***************************************************************************)
(* importCsvFile: the rows of a positions-bearing file                     *)
(***************************************************************************)
\* indexOf of JavaScript, one-based here; 0 when absent
IndexOf(seq, x) ==
    LET at == {i \in 1..Len(seq) : seq[i] = x}
    IN  IF at = {} THEN 0 ELSE CHOOSE i \in at : \A j \in at : i <= j

\* row[idx] || "" : a missing cell reads as the empty text
CellAt(row, idx) == IF idx \in 1..Len(row) THEN row[idx] ELSE ""

\* s.replace(/\s+/g, "")
RemoveWhitespace(s) == RemoveChars(s, Whitespace)

SectionLabels == {"EQUITIES", "OPTIONS", "FUTURES", "FOREX", "CRYPTO", "POSITIONS"}

isSectionHeader(row) ==
    \/ Len(row) = 1
    \/ /\ Trim(row[1]) # ""
       /\ \A k \in 2..Len(row) : Trim(row[k]) = ""

\* whether rows[i] names a position section and rows[i + 1] is its header row
isSectionAt(rows, i) ==
    LET header == [k \in 1..Len(rows[i + 1]) |-> normalizeHeader(rows[i + 1][k])]
        names == Range(header)
        sectionUpper == ToUpper(Trim(CellAt(rows[i], 1)))
    IN  /\ "symbol" \in names /\ "qty" \in names
        /\ names \cap {"mark", "last", "trade_price", "price"} # {}
        /\ \E label \in SectionLabels : Includes(sectionUpper, label)

\* a strike that is null or undefined
NullNumber == [fin |-> FALSE, v |-> -1]

\* the identity of a position that no step resolved as an option
Unresolved(symbol, assetClass) ==
    [symbol |-> symbol, underlying |-> "", expiry |-> "", strike |-> NullNumber,
     option_type |-> "", asset_class |-> assetClass]

\* the identity taken from a contract symbol that parsed
FromOsi(symbol, parsedSymbol) ==
    [symbol |-> symbol, underlying |-> parsedSymbol.underlying,
     expiry |-> parsedSymbol.expiry, strike |-> parsedSymbol.strike,
     option_type |-> parsedSymbol.option_type, asset_class |-> "OPTION"]

\* the identity built from the underlying, expiry, strike and right columns of
\* a statement row, when all four have a value and a symbol can be built
FromColumns(rawUnderlying, rawExpiry, rawStrike, rawRight, otherwise) ==
    IF rawUnderlying = "" \/ rawExpiry = "" \/ rawStrike = "" \/ rawRight = ""
    THEN otherwise
    ELSE IF normalizeExpiryInput(rawExpiry) = "" \/ ~IsFinite(parseNumber(rawStrike))
    THEN otherwise
    ELSE IF buildOsiSymbol(rawUnderlying, normalizeExpiryInput(rawExpiry),
                           IF Head(ToUpper(rawRight)) = "P" THEN "P" ELSE "C",
                           parseNumber(rawStrike)) = ""
    THEN otherwise
    ELSE [symbol |-> buildOsiSymbol(rawUnderlying, normalizeExpiryInput(rawExpiry),
                                    IF Head(ToUpper(rawRight)) = "P" THEN "P" ELSE "C",
                                    parseNumber(rawStrike)),
          underlying |-> ToUpper(rawUnderlying),
          expiry |-> normalizeExpiryInput(rawExpiry),
          strike |-> parseNumber(rawStrike),
          option_type |-> IF Head(ToUpper(rawRight)) = "P" THEN "PUT" ELSE "CALL",
          asset_class |-> "OPTION"]

\* the identity taken from a description that parsed
FromDescription(parsedDesc, otherwise) ==
    IF ~parsedDesc.ok THEN otherwise
    ELSE [symbol |-> parsedDesc.symbol, underlying |-> parsedDesc.underlying,
          expiry |-> parsedDesc.expiry, strike |-> parsedDesc.strike,
          option_type |-> parsedDesc.option_type, asset_class |-> "OPTION"]

\* a || b || c of texts
FirstText(a, b, c) == IF a # "" THEN a ELSE IF b # "" THEN b ELSE c

\* parsedDesc of a statement row: the description, then the raw symbol, then
\* the text of the row
FirstParsed(ofDesc, ofSymbol, ofRow) ==
    IF ofDesc.ok THEN ofDesc ELSE IF ofSymbol.ok THEN ofSymbol ELSE ofRow

statementDescription(desc, rawSymbol, rowText, fallbackUnderlying) ==
    Only({ FirstParsed(ofDesc, ofSymbol, ofRow) :
             ofDesc \in {parseOptionDescription(desc, fallbackUnderlying)},
             ofSymbol \in {IF rawSymbol # ""
                           THEN parseOptionDescription(rawSymbol, fallbackUnderlying)
                           ELSE NoDescription},
             ofRow \in {IF rowText # ""
                        THEN parseOptionDescription(rowText, fallbackUnderlying)
                        ELSE NoDescription} })

\* the else branch of the resolution of a statement row: the columns, then the
\* description, which is applied whenever it parses
columnsThenDescription(columns, desc, rawSymbol, rowText, rawUnderlying) ==
    Only({ FromDescription(parsedDesc, columns) :
             parsedDesc \in {statementDescription(desc, rawSymbol, rowText,
                                 FirstText(rawUnderlying, columns.symbol, rawSymbol))} })

\* the resolution of a statement row
resolveStatementRow(symbol, assetClass, rawSymbol, desc, rowText, rawUnderlying, rawExpiry, rawStrike, rawRight) ==
    IF parseOsiSymbol(symbol).ok THEN FromOsi(symbol, parseOsiSymbol(symbol))
    ELSE Only({ columnsThenDescription(columns, desc, rawSymbol, rowText, rawUnderlying) :
                  columns \in {FromColumns(rawUnderlying, rawExpiry, rawStrike, rawRight,
                                           Unresolved(symbol, assetClass))} })

\* the index of a column that has two names: header.indexOf(a) >= 0 ? ... : header.indexOf(b)
ColumnOf(header, a, b) == IF IndexOf(header, a) # 0 THEN IndexOf(header, a) ELSE IndexOf(header, b)

\* idx >= 0 ? (row[idx] || "").trim() : ""
TrimmedCell(row, idx) == Trim(CellAt(row, idx))

\* row.filter((cell) => (cell || "").trim()).join(" ")
rowTextOf(row) == JoinCells(SelectSeq(row, LAMBDA cell : Trim(cell) # ""))

\* the asset class a section gives its rows
sectionAssetClass(sectionUpper) ==
    IF Includes(sectionUpper, "FOREX") THEN "FOREX"
    ELSE IF Includes(sectionUpper, "FUTURE") THEN "FUTURE"
    ELSE IF Includes(sectionUpper, "OPTION") THEN "OPTION"
    ELSE "EQUITY"

\* the position pushed for a row of a section
statementPosition(row, header, assetClass, rawSymbol, qty) ==
    [qty |-> qty] @@
    Only({ resolveStatementRow(symbol, assetClass, rawSymbol, desc, rowText,
                               rawUnderlying, rawExpiry, rawStrike, rawRight) :
             symbol \in {ToUpper(RemoveWhitespace(rawSymbol))},
             desc \in {TrimmedCell(row, IndexOf(header, "description"))},
             rowText \in {rowTextOf(row)},
             rawUnderlying \in {TrimmedCell(row, ColumnOf(header, "underlying", "root"))},
             rawExpiry \in {TrimmedCell(row, ColumnOf(header, "expiry", "expiration_date"))},
             rawStrike \in {TrimmedCell(row, ColumnOf(header, "strike", "strike_price"))},
             rawRight \in {TrimmedCell(row, ColumnOf(header, "option_type", "put_call"))} })

\* the positions read from the rows j.. of the section whose header row is given:
\* the loop stops at a blank row, a section header or a total row, and skips a
\* row without symbol or with a quantity that is not a non-zero number
RECURSIVE sectionPositions(_, _, _, _)
sectionPositions(rows, header, j, assetClass) ==
    IF j > Len(rows) THEN <<>>
    ELSE LET row == rows[j]
             rawSymbol == Trim(CellAt(row, IndexOf(header, "symbol")))
             qty == parseNumber(CellAt(row, IndexOf(header, "qty")))
         IN  IF \A k \in 1..Len(row) : Trim(row[k]) = "" THEN <<>>
             ELSE IF isSectionHeader(row) THEN <<>>
             ELSE IF Includes(ToLower(Trim(CellAt(row, 2))), "total") THEN <<>>
             ELSE IF rawSymbol = "" \/ ~IsFinite(qty) \/ qty.v = 0
                  THEN sectionPositions(rows, header, j + 1, assetClass)
             ELSE <<statementPosition(row, header, assetClass, rawSymbol, qty)>>
                  \o sectionPositions(rows, header, j + 1, assetClass)

\* parseAccountStatementPositions: the positions of each section
RECURSIVE statementPositionsFrom(_, _)
statementPositionsFrom(rows, i) ==
    IF i > Len(rows) - 1 THEN <<>>
    ELSE (IF isSectionAt(rows, i)
          THEN sectionPositions(rows,
                   [k \in 1..Len(rows[i + 1]) |-> normalizeHeader(rows[i + 1][k])], i + 2,
                   sectionAssetClass(ToUpper(Trim(CellAt(rows[i], 1)))))
          ELSE <<>>)
         \o statementPositionsFrom(rows, i + 1)

parseAccountStatementPositions(rows) ==
    IF rows = <<>> THEN <<>> ELSE statementPositionsFrom(rows, 1)

\* the alias table of the generic CSV import, for the columns modelled
AliasSymbol == <<"symbol", "sym", "ticker", "instrument", "instrument_symbol",
                 "option_symbol", "security", "description">>
AliasQty == <<"qty", "quantity", "position", "pos", "position_qty", "net_qty",
              "net_quantity", "units", "size">>
AliasSide == <<"side", "direction", "long_short", "longshort">>
AliasAssetClass == <<"asset_class", "asset", "type", "instrument_type", "security_type",
                     "product_type">>
AliasUnderlying == <<"underlying", "underlier", "root", "root_symbol", "underlying_symbol">>
AliasExpiry == <<"expiry", "exp", "expiration", "expiration_date", "exp_date">>
AliasStrike == <<"strike", "strike_price">>
AliasOptionType == <<"option_type", "right", "put_call", "call_put", "cp", "p_c">>

\* the header row as parseCsv and normalizedRows read it: the keys of a row,
\* which are the trimmed header cells, and the normalized name of each key
csvHeader(row) ==
    [keys |-> [k \in 1..Len(row) |-> Trim(row[k])] \o <<>>,
     normalized |-> [k \in 1..Len(row) |-> normalizeHeader(Trim(row[k]))] \o <<>>]

\* parseCsv and the normalized record of a data row: the value filed under a
\* normalized column name.  Of two columns with the same header text the later
\* one gives the value; of two header texts with the same normalized name the
\* one that occurs first later in the header row
normalizedValue(header, cols, name) ==
    LET keys == header.keys
        firstAt(k) == IndexOf(keys, keys[k])
        named == {k \in 1..Len(keys) : header.normalized[k] = name}
    IN  IF named = {} THEN NULL
        ELSE LET key == keys[CHOOSE k \in named : \A m \in named : firstAt(m) <= firstAt(k)]
                 same == {k \in 1..Len(keys) : keys[k] = key}
             IN  CellAt(cols, CHOOSE k \in same : \A m \in same : m <= k)

\* pick(key): the first alias with a value that is not empty
RECURSIVE pick(_, _, _)
pick(header, cols, aliases) ==
    IF aliases = <<>> THEN ""
    ELSE LET val == normalizedValue(header, cols, normalizeHeader(Head(aliases)))
         IN  IF val # NULL /\ val # "" THEN val ELSE pick(header, cols, Tail(aliases))

\* Math.abs
Abs(n) == IF n < 0 THEN -n ELSE n

\* if (sideRaw.includes("SHORT") || sideRaw.includes("SELL")) qty = -Math.abs(qty)
ShortSide(qty, sideRaw) ==
    IF Includes(sideRaw, "SHORT") \/ Includes(sideRaw, "SELL") THEN -Abs(qty) ELSE qty

\* if (sideRaw.includes("LONG") || sideRaw.includes("BUY")) qty = Math.abs(qty)
LongSide(qty, sideRaw) ==
    IF Includes(sideRaw, "LONG") \/ Includes(sideRaw, "BUY") THEN Abs(qty) ELSE qty

\* the quantity as written, whatever the side
SignedAsWritten(qty, sideRaw) == Num(qty)

\* the quantity signed by the side, when there is a quantity and a side
SignedBySide(qty, sideRaw) ==
    IF qty # 0 /\ sideRaw # "" THEN Num(LongSide(ShortSide(qty, sideRaw), sideRaw))
    ELSE Num(qty)

\* Number.isFinite(qtyRaw) ? qtyRaw : 0
FiniteOrZero(qtyRaw) == IF IsFinite(qtyRaw) THEN qtyRaw.v ELSE 0

\* the quantity of a row of the generic CSV, signed by the side column
genericQty(qtyText, sideText) ==
    SignedBySide(FiniteOrZero(parseNumber(qtyText)), ToUpper(sideText))

\* /^[A-Z0-9]{1,4}[FGHJKMNQUVXZ][0-9]{2}$/ on the trimmed, upper-cased text
FutureShape(s) ==
    /\ Len(s) \in 4..7
    /\ AllIn(SubSeq(s, 1, Len(s) - 3), UpperLetters \cup Digits)
    /\ CharAt(s, Len(s) - 2) \in {"F", "G", "H", "J", "K", "M", "N", "Q", "U", "V", "X", "Z"}
    /\ AllIn(SubSeq(s, Len(s) - 1, Len(s)), Digits)

isFutureSymbol(value) == FutureShape(ToUpper(Trim(value)))

\* s.startsWith(prefix)
StartsWith(s, prefix) == Len(s) >= Len(prefix) /\ SubSeq(s, 1, Len(prefix)) = prefix

\* a field of parsedDesc?.x || parsedSymbol?.x || "", after the column
genericText(column, parsedDesc, parsedSymbol, field) ==
    IF column # "" THEN column
    ELSE IF parsedDesc.ok /\ parsedDesc[field] # "" THEN parsedDesc[field]
    ELSE IF parsedSymbol.ok THEN parsedSymbol[field]
    ELSE ""

\* strike: the column when it is a finite number, else
\* parsedDesc?.strike ?? parsedSymbol?.strike ?? null
genericStrike(strikeRaw, parsedDesc, parsedSymbol) ==
    IF IsFinite(parseNumber(strikeRaw)) /\ strikeRaw # "" THEN parseNumber(strikeRaw)
    ELSE IF parsedDesc.ok THEN parsedDesc.strike
    ELSE IF parsedSymbol.ok THEN parsedSymbol.strike
    ELSE NullNumber

\* right: PUT or CALL by the first letter, else the text as it is
genericRight(rightRaw) ==
    IF StartsWith(rightRaw, "P") THEN "PUT"
    ELSE IF StartsWith(rightRaw, "C") THEN "CALL"
    ELSE rightRaw

\* the symbol built from the fields, when there are all four
genericBuilt(cleanedSymbol, underlying, expiry, strike, right) ==
    IF underlying = "" \/ expiry = "" \/ right = "" \/ strike = NullNumber \/ ~Truthy(strike)
    THEN cleanedSymbol
    ELSE IF buildOsiSymbol(underlying, normalizeExpiryInput(expiry),
                           IF StartsWith(right, "P") THEN "P" ELSE "C", strike) = ""
    THEN cleanedSymbol
    ELSE buildOsiSymbol(underlying, normalizeExpiryInput(expiry),
                        IF StartsWith(right, "P") THEN "P" ELSE "C", strike)

\* symbol: the cleaned symbol when it parses, else that of the description,
\* else the one built from the fields
genericSymbol(cleanedSymbol, parsedDesc, parsedSymbol, underlying, expiry, strike, right) ==
    IF parsedSymbol.ok THEN cleanedSymbol
    ELSE IF parsedDesc.ok /\ parsedDesc.symbol # "" THEN parsedDesc.symbol
    ELSE genericBuilt(cleanedSymbol, underlying, expiry, strike, right)

isOptionRow(symbol, right, assetClassRaw) ==
    \/ parseOsiSymbol(symbol).ok
    \/ StartsWith(right, "P") \/ StartsWith(right, "C")
    \/ Includes(assetClassRaw, "OPT") \/ Includes(assetClassRaw, "CALL")
    \/ Includes(assetClassRaw, "PUT")

isFutureRow(symbol, assetClassRaw) ==
    Includes(assetClassRaw, "FUT") \/ Includes(assetClassRaw, "FUTURE") \/ isFutureSymbol(symbol)

\* asset_class: the column or, without one, what the symbol and right tell
genericAssetClass(assetClassColumn, symbol, right) ==
    IF assetClassColumn # "" THEN ToUpper(assetClassColumn)
    ELSE IF isOptionRow(symbol, right, ToUpper(assetClassColumn)) THEN "OPTION"
    ELSE IF isFutureRow(symbol, ToUpper(assetClassColumn)) THEN "FUTURE"
    ELSE "EQUITY"

\* the record returned for a row, given its fields
genericRecord(symbol, qty, assetClassColumn, underlying, expiry, strike, right) ==
    [symbol |-> ToUpper(symbol), qty |-> qty,
     asset_class |-> genericAssetClass(assetClassColumn, symbol, right),
     underlying |-> ToUpper(underlying), expiry |-> expiry, strike |-> strike,
     option_type |-> ToUpper(right)]

\* the fields of a row from its columns and the two parses of its symbol
genericResolved(cleanedSymbol, qty, assetClassColumn, parsedDesc, parsedSymbol, underlying, expiry, strike, right) ==
    genericRecord(genericSymbol(cleanedSymbol, parsedDesc, parsedSymbol,
                                underlying, expiry, strike, right),
                  qty, assetClassColumn, underlying, expiry, strike, right)

\* a row of positionsPayload from the values picked
genericPosition(rawSymbol, qty, assetClassColumn, underlyingColumn, expiryColumn, strikeColumn, rightColumn, parsedDesc, parsedSymbol) ==
    genericResolved(ToUpper(RemoveWhitespace(rawSymbol)), qty, assetClassColumn,
                    parsedDesc, parsedSymbol,
                    ToUpper(genericText(underlyingColumn, parsedDesc, parsedSymbol,
                                        "underlying")),
                    genericText(expiryColumn, parsedDesc, parsedSymbol, "expiry"),
                    genericStrike(strikeColumn, parsedDesc, parsedSymbol),
                    genericRight(ToUpper(genericText(rightColumn, parsedDesc, parsedSymbol,
                                                     "option_type"))))

genericRow(header, cols, rawSymbol, underlyingColumn) ==
    Only({ genericPosition(rawSymbol, qty, assetClassColumn, underlyingColumn,
                           expiryColumn, strikeColumn, rightColumn, parsedDesc, parsedSymbol) :
             qty \in {genericQty(pick(header, cols, AliasQty), pick(header, cols, AliasSide))},
             assetClassColumn \in {pick(header, cols, AliasAssetClass)},
             expiryColumn \in {pick(header, cols, AliasExpiry)},
             strikeColumn \in {pick(header, cols, AliasStrike)},
             rightColumn \in {pick(header, cols, AliasOptionType)},
             parsedDesc \in {parseOptionDescription(rawSymbol, underlyingColumn)},
             parsedSymbol \in {parseOsiSymbol(ToUpper(RemoveWhitespace(rawSymbol)))} })

\* positionsPayload: the position of each data row; of its fields the symbol,
\* the quantity and those of the option identity are kept
payloadRows(header, rawRows) ==
    [i \in 1..(Len(rawRows) - 1) |->
        Only({ genericRow(header, rawRows[i + 1], rawSymbol, underlyingColumn) :
                 rawSymbol \in {pick(header, rawRows[i + 1], AliasSymbol)},
                 underlyingColumn \in {pick(header, rawRows[i + 1], AliasUnderlying)} })]

positionsPayload(rawRows) ==
    Only({ payloadRows(header, rawRows) : header \in {csvHeader(rawRows[1])} })

\* every row kept
unfiltered(payload) == payload

\* the first of the rows kept only
firstUsable(payload) ==
    IF SelectSeq(payload, LAMBDA row : row.symbol # "" /\ IsFinite(row.qty) /\ row.qty.v # 0) = <<>>
    THEN <<>>
    ELSE <<Head(SelectSeq(payload, LAMBDA row :
                              row.symbol # "" /\ IsFinite(row.qty) /\ row.qty.v # 0))>>

\* filter((row) => row.symbol && Number.isFinite(row.qty) && row.qty !== 0)
usable(payload) ==
    SelectSeq(payload, LAMBDA row : row.symbol # "" /\ IsFinite(row.qty) /\ row.qty.v # 0)

(***************************************************************************)
(* importCsvFile: the handler                                              *)
(***************************************************************************)
\* requireAccount: the account to act on, or NULL with a message when the
\* selection is empty or ALL
requireAccount(account, action) ==
    IF account = "" \/ account = "ALL"
    THEN [account |-> NULL,
          msg |-> "Select a specific account (not ALL) to " \o action \o "."]
    ELSE [account |-> account, msg |-> ""]

NoRequest == [endpoint |-> "", account |-> "", positions |-> <<>>, status |-> "none"]

\* api.post(endpoint, ...): a request in flight
Post(endpoint, account, payload) ==
    [endpoint |-> endpoint, account |-> account, positions |-> payload,
     status |-> "pending"]

\* the outcome of the synchronous part of a branch that needs an account
WithAccount(handled, account, action, endpoint, payload) ==
    LET req == requireAccount(account, action)
    IN  IF req.account = NULL
        THEN [handled |-> handled, error |-> req.msg, request |-> NoRequest]
        ELSE [handled |-> handled, error |-> "",
              request |-> Post(endpoint, req.account, payload)]

\* the account statement branch, given the account and the rows kept
statementImport(format, req, filtered) ==
    IF req.account = NULL
    THEN [handled |-> format, error |-> req.msg, request |-> NoRequest]
    ELSE IF filtered = <<>>
    THEN [handled |-> format, error |-> "Account statement positions not found.",
          request |-> NoRequest]
    ELSE [handled |-> format, error |-> "",
          request |-> Post("/positions/bulk", req.account, filtered)]

\* the generic CSV branch, given the rows kept
genericImport(format, rawRows, account, filtered) ==
    IF Len(rawRows) < 2
    THEN [handled |-> format, error |-> "CSV file is empty.", request |-> NoRequest]
    ELSE IF filtered = <<>>
    THEN [handled |-> format, error |-> "CSV requires symbol and qty.",
          request |-> NoRequest]
    ELSE WithAccount(format, account, "import positions CSV", "/positions/bulk", filtered)

\* the branch of importCsvFile for the format detected
importAs(format, rawRows, account) ==
    IF format = "balances"
    THEN [handled |-> format, error |-> "",
          request |-> Post("/admin/import-balances", "", <<>>)]
    ELSE IF format = "positions"
    THEN WithAccount(format, account, "import positions CSV", "/admin/import-positions", <<>>)
    ELSE IF format = "transactions"
    THEN WithAccount(format, account, "import transactions CSV",
                     "/admin/import-transactions", <<>>)
    ELSE IF format = "statement"
    THEN Only({ statementImport(format, req, filtered) :
                  req \in {requireAccount(account, "import positions from account statement")},
                  filtered \in {usable(parseAccountStatementPositions(rawRows))} })
    ELSE Only({ genericImport(format, rawRows, account, filtered) :
                  filtered \in {usable(positionsPayload(rawRows))} })

\* importCsvFile up to its request or its early return: the branch taken, the
\* error shown and the request sent
importCsvFile(rawRows, account) ==
    IF rawRows = <<>>
    THEN [handled |-> "empty", error |-> "CSV file is empty.", request |-> NoRequest]
    ELSE Only({ importAs(format, rawRows, account) : format \in {detectFormat(rawRows)} })

\* the rows a file is made of
CsvRowInputs ==
    { <<"Date", "Action", "Symbol", "Quantity", "Fees & Comm", "Amount">>,
      <<"Balances for All-Accounts">>,
      <<"Total Accounts Value", "Cash & Cash Investments Total">>,
      <<"Account Statement Equities">>,
      <<"Positions for CUSTACCS">>,
      <<"^Symbol", "Qty", "Price", "Side">>,
      <<"AAPL", "10", "150.5", "SELL">> }

\* the longest file, in rows
MaxCsvRows == 3

\* the most imports started
MaxImports == 1

\* the files: the rows parseCsvRows yields, none of them blank
CsvFileInputs(maxRows) == UNION {[1..n -> CsvRowInputs] : n \in 0..maxRows}

AccountInputs == {"ALL", "IRA"}

\* the header row of a positions table
PositionsHeader == <<"Symbol", "Qty", "Price", "Side">>

\* the data rows of a positions table: symbol, quantity, price and side, with
\* the symbol missing, the quantity zero, negative or not a number, and the
\* side in either case or missing
DataRowInputs ==
    { <<"AAPL", "10", "150.5", "SELL">>,
      <<"AAPL", "-5", "150.5", "Buy">>,
      <<"MSFT", "-5", "300", "">>,
      <<"MSFT", "0", "300", "SELL">>,
      <<"", "10", "1", "BUY">>,
      <<"IBM", "abc", "1", "LONG">>,
      <<"aapl", "7", "1", "short">> }

\* the most data rows of a positions table
MaxDataRows == 2

\* the positions-bearing files: a generic CSV, which is the header row and the
\* data rows, and an account statement, which has the title of its section first
PositionsFileInputs(maxRows) ==
    UNION {{<<PositionsHeader>> \o data : data \in [1..n -> DataRowInputs]}
           \cup {<<<<"Account Statement Equities">>, PositionsHeader>> \o data :
                     data \in [1..n -> DataRowInputs]} : n \in 0..maxRows}

\* the header row of a positions table with the columns of an option
OptionHeader == <<"Symbol", "Description", "Qty", "Price", "Underlying", "Expiry",
                  "Strike", "Option Type", "Asset Class">>

\* the explicit option columns of a row: none, or all four
OptionColumnInputs == { <<"", "", "", "">>, <<"MSFT", "2026-02-20", "200", "P">> }

\* the data rows of such a table: the symbol is a contract symbol, a ticker or a
\* description; a description column, the option columns and the asset class
\* are given or not; each source of the identity names another contract
OptionRowInputs ==
    { <<symbol, description, "1", "2.5">> \o columns \o <<assetClass>> :
        symbol \in {"AAPL260117C00150000", "AAPL", "IBM 03/20/2026 250 CALL"},
        description \in {"", "IBM 03/20/2026 250 CALL"},
        columns \in OptionColumnInputs,
        assetClass \in {"", "EQUITY"} }

\* the most data rows of an option table
MaxOptionRows == 1

\* the files with option rows: a generic CSV and an account statement
OptionFileInputs(maxRows) ==
    UNION {{<<OptionHeader>> \o data : data \in [1..n -> OptionRowInputs]}
           \cup {<<<<"Account Statement Equities">>, OptionHeader>> \o data :
                     data \in [1..n -> OptionRowInputs]} : n \in 1..maxRows}

\* the number of NAV points of each timeframe
NAV_LIMITS == [t \in {"1D", "5D", "1M", "3M", "MAX"} |->
                 IF t = "1D" THEN 30 ELSE IF t = "5D" THEN 60 ELSE IF t = "1M" THEN 120
                 ELSE IF t = "3M" THEN 180 ELSE 3650]

\* `?account=...`: the account a request names, none for ALL
accountParam(account) == IF account # "" /\ account # "ALL" THEN account ELSE ""

\* fetchNav(limit): the request it makes; args are the arguments of the call,
\* and a limit that is not given is undefined in the template
fetchNav(args, account) ==
    "/portfolio/nav?limit="
        \o (IF args = <<>> THEN "undefined" ELSE ToString(args[1]))
        \o (IF accountParam(account) # "" THEN "&account=" \o account ELSE "")

\* the user drops the file on the import control
ImportCsvFile ==
    /\ Len(requests) < MaxImports
    /\ \E r \in {importCsvFile(csvFile, accountId)} :
           /\ csvHandled' = r.handled
           /\ csvError' = r.error
           /\ requests' = IF r.request = NoRequest THEN requests
                          ELSE Append(requests, r.request)
    /\ UNCHANGED <<accountId, csvFile>>
    /\ UNCHANGED <<codecVars, navStoreVars, navSeriesVars, nettingVars, descriptionVars, operationVars, chartVars, fileVars, marketVars, snapshotVars, keyboardVars>>

\* the endpoints importCsvFile posts to
ImportEndpoints ==
    {"/admin/import-balances", "/admin/import-positions", "/admin/import-transactions",
     "/positions/bulk"}

\* the server answers the request of an import: the NAV series is fetched again
\* after a positions report or a transactions file, the catch block shows the
\* failure
ImportResponse(i, ok) ==
    /\ i \in 1..Len(requests)
    /\ requests[i].status = "pending"
    /\ requests[i].endpoint \in ImportEndpoints
    /\ requests' = [requests EXCEPT ![i].status = IF ok THEN "done" ELSE "failed"]
    /\ csvError' = IF ok THEN csvError ELSE "CSV import failed"
    /\ navFetches' =
           IF ok /\ requests[i].endpoint \in {"/admin/import-positions",
                                               "/admin/import-transactions"}
           THEN Append(navFetches, fetchNav(<<navLimit>>, accountId))
           ELSE navFetches
    /\ UNCHANGED <<accountId, csvFile, csvHandled, navRebuildRunning, navLimit>>
    /\ UNCHANGED <<codecVars, navStoreVars, navSeriesVars, nettingVars, descriptionVars, chartVars, fileVars, marketVars, snapshotVars, keyboardVars>>

ImportSucceeds == \E i \in 1..Len(requests) : ImportResponse(i, TRUE)

ImportFails == \E i \in 1..Len(requests) : ImportResponse(i, FALSE)

ImportNext == ImportCsvFile \/ ImportSucceeds \/ ImportFails

(***************************************************************************)
(* importCsvFile: from the text of the file to its rows (parseCsvRows)     *)
(***************************************************************************)
\* the place of the first character from i on that is one of the marks, or past
\* the end of the text: up to there the loop only does current += ch
RunEnd(text, i, marks) ==
    CHOOSE j \in i..(Len(text) + 1) :
        /\ \A k \in i..(j - 1) : CharAt(text, k) \notin marks
        /\ (j = Len(text) + 1 \/ CharAt(text, j) \in marks)

\* the loop of parseCsvRows over the characters of one row, from the character
\* at i (one-based): the cells pushed, the cell being read, and whether a quoted
\* cell is open.  A run of characters that are only added to the cell is read
\* in one step.  The row ends after a line break outside quotes with
\* row.push(current), or at the end of the text, where the cell is pushed
\* if (current.length || row.length); next is the place of the first character
\* of the following row
RECURSIVE readRow(_, _, _, _, _)
readRow(text, i, row, current, inQuotes) ==
    IF i > Len(text)
    THEN [cells |-> IF current # "" \/ row # <<>> THEN Append(row, current) ELSE <<>>,
          next |-> i]
    ELSE LET ch == CharAt(text, i)
             next == IF i < Len(text) THEN CharAt(text, i + 1) ELSE ""
         IN  IF inQuotes
             THEN IF ch = "\""
                  THEN IF next = "\""
                       THEN readRow(text, i + 2, row, current \o "\"", TRUE)
                       ELSE readRow(text, i + 1, row, current, FALSE)
                  ELSE Only({ readRow(text, j, row, current \o SubSeq(text, i, j - 1), TRUE) :
                                j \in {RunEnd(text, i, {"\""})} })
             ELSE IF ch = "\""
             THEN readRow(text, i + 1, row, current, TRUE)
             ELSE IF ch = ","
             THEN readRow(text, i + 1, Append(row, current), "", FALSE)
             ELSE IF ch = "\n" \/ ch = "\r"
             THEN [cells |-> Append(row, current),
                   next |-> IF ch = "\r" /\ next = "\n" THEN i + 2 ELSE i + 1]
             ELSE Only({ readRow(text, j, row, current \o SubSeq(text, i, j - 1), FALSE) :
                           j \in {RunEnd(text, i, {"\"", ",", "\n", "\r"})} })

\* if (row.some((cell) => cell.trim() !== "")) rows.push(row)
pushRow(rows, row) ==
    IF \E k \in 1..Len(row) : Trim(row[k]) # "" THEN Append(rows, row) ELSE rows

\* the loop of parseCsvRows, row after row
RECURSIVE parseCsvFrom(_, _, _)
parseCsvFrom(text, i, rows) ==
    IF i > Len(text) THEN rows
    ELSE Only({ parseCsvFrom(text, r.next, pushRow(rows, r.cells)) :
                  r \in {readRow(text, i, <<>>, "", FALSE)} })

parseCsvRows(text) == parseCsvFrom(text, 1, <<>>)

\* the first lines of an account statement: its title, the name of a position
\* section and the header row of the section
StatementHead == "Account Statement\nEquities\nSymbol,Qty,Mark\n"

\* the lines that follow: rows of the section, a blank line, a line of blank
\* cells, a total row, the name of another section
StatementLineInputs ==
    {"AAPL,10,150", "", "\"MSFT\",5,300", " , ,", ",Total,1500", "Futures"}

\* the most lines after the header row of the section
MaxStatementLines == 3

\* lines.join("\n")
RECURSIVE JoinLines(_)
JoinLines(lines) ==
    IF lines = <<>> THEN ""
    ELSE IF Len(lines) = 1 THEN lines[1]
    ELSE lines[1] \o "\n" \o JoinLines(Tail(lines))

StatementTextInputs(maxLines) ==
    {StatementHead \o JoinLines(lines) :
         lines \in UNION {[1..n -> StatementLineInputs] : n \in 0..maxLines}}

\* a file is dropped on the import zone: importCsvFile reads its text, parses
\* the rows and takes the branch of the format detected
ImportFileText ==
    /\ Len(requests) < MaxImports
    /\ \E rawRows \in {parseCsvRows(fileText)} :
       \E r \in {importCsvFile(rawRows, accountId)} :
           /\ csvFile' = rawRows
           /\ csvHandled' = r.handled
           /\ csvError' = r.error
           /\ requests' = IF r.request = NoRequest THEN requests
                          ELSE Append(requests, r.request)
    /\ UNCHANGED <<accountId, fileText>>
    /\ UNCHANGED <<codecVars, navStoreVars, navSeriesVars, nettingVars, descriptionVars, operationVars, chartVars, marketVars, snapshotVars, keyboardVars>>

FileTextNext == ImportFileText \/ ImportSucceeds \/ ImportFails

(***************************************************************************)
(* The handlers that change the portfolio: what each sends, and what       *)
(* follows the answer.  The body of a request is kept for a bulk import    *)
(* only; the toast is not part of the state.                               *)
(***************************************************************************)
\* the position form: symbol, quantity and price as typed
PositionFormInputs ==
    { [symbol |-> symbol, qty |-> qty, price |-> "150.5"] :
        symbol \in {"", "aapl"}, qty \in {"10", "abc"} }

\* a row of the positions table
PositionRowInputs ==
    { [instrument_id |-> "", owner |-> "", entry_date |-> ""],
      [instrument_id |-> "id1", owner |-> "Ann", entry_date |-> "2026-01-05"] }

OwnerInputs == {"Ann ", "Bob"}

EntryDateInputs == {"2026-01-05", "2026-02-06", "02/06/2026", ""}

CashInputs == {"", "abc", "500"}

ResetCashInputs == {"", "0", "100000", "$1,000", "1 000"}

NavPasteInputs == {" ", "2026-01-05 1000"}

\* the files dropped: a positions report, a transactions file, an account
\* statement, a generic CSV and a balances report
OperationFileInputs ==
    { << <<"Positions for CUSTACCS">>, PositionsHeader >>,
      << <<"Date", "Action", "Symbol", "Quantity", "Fees & Comm", "Amount">> >>,
      << <<"Account Statement Equities">>, PositionsHeader,
         <<"AAPL", "10", "150.5", "">> >>,
      << PositionsHeader, <<"AAPL", "10", "150.5", "">> >>,
      << <<"Balances for All-Accounts">> >> }

\* the most requests sent
MaxOperations == 2

savePosition(account, form) ==
    IF requireAccount(account, "save positions").account = NULL THEN NoRequest
    ELSE IF \/ ToUpper(Trim(form.symbol)) = ""
            \/ ~IsFinite(JsNumber(form.qty))
            \/ ~IsFinite(JsNumber(form.price))
    THEN NoRequest
    ELSE Post("/positions", account, <<>>)

removePosition(account, instrumentId) ==
    IF instrumentId = "" THEN NoRequest
    ELSE IF requireAccount(account, "remove positions").account = NULL THEN NoRequest
    ELSE Post("DELETE /positions/" \o instrumentId, account, <<>>)

updatePositionSector(account, row, sector) ==
    IF row.instrument_id = "" THEN NoRequest
    ELSE IF requireAccount(account, "update positions").account = NULL THEN NoRequest
    ELSE Post("/positions", account, <<>>)

updatePositionOwner(account, row, owner) ==
    IF row.instrument_id = "" THEN NoRequest
    ELSE IF requireAccount(account, "update positions").account = NULL THEN NoRequest
    ELSE IF Trim(owner) = Trim(row.owner) THEN NoRequest
    ELSE Post("/positions", account, <<>>)

updatePositionEntryDate(account, row, value) ==
    IF row.instrument_id = "" THEN NoRequest
    ELSE IF requireAccount(account, "update positions").account = NULL THEN NoRequest
    ELSE IF Trim(value) = Trim(row.entry_date) THEN NoRequest
    ELSE IF Trim(value) # "" /\ ~IsDateShape(Trim(value), 4, 2, 2, {"-"}) THEN NoRequest
    ELSE Post("/positions", account, <<>>)

updateCash(account, cashInput) ==
    IF Trim(cashInput) = "" THEN NoRequest
    ELSE IF ~IsFinite(JsNumber(cashInput)) THEN NoRequest
    ELSE IF requireAccount(account, "update cash balances").account = NULL THEN NoRequest
    ELSE Post("/positions/cash", account, <<>>)

\* resetCash.replace(/[$,\\s]/g, ""): in the character class of the pattern the
\* backslash is escaped, so the class is the dollar sign, the comma, the
\* backslash and the letter s
cleanedResetCash(resetCash) == RemoveChars(resetCash, {"$", ",", "\\", "s"})

resetPortfolio(resetCash) ==
    IF Trim(resetCash) = "" THEN NoRequest
    ELSE IF \/ ~IsFinite(JsNumber(cleanedResetCash(resetCash)))
            \/ JsNumber(cleanedResetCash(resetCash)).v <= 0
    THEN NoRequest
    ELSE Post("/admin/reset", "", <<>>)

rebuildNavHistory(account) == Post("/admin/rebuild-nav", accountParam(account), <<>>)

clearNavHistory(account) == Post("/admin/clear-nav", accountParam(account), <<>>)

importNavText(account, navPasteText) ==
    IF requireAccount(account, "import NAV history").account = NULL THEN NoRequest
    ELSE IF Trim(navPasteText) = "" THEN NoRequest
    ELSE Post("/admin/import-nav-text", account, <<>>)

\* the requests after a handler ran: it sent the request, or returned early
Sent(log, request) == IF request = NoRequest THEN log ELSE Append(log, request)

\* the user saves the position form
SavePosition ==
    /\ Len(requests) < MaxOperations
    /\ \E form \in PositionFormInputs :
           requests' = Sent(requests, savePosition(accountId, form))
    /\ UNCHANGED <<accountId, csvFile, csvHandled, csvError>>
    /\ UNCHANGED <<navRebuildRunning, navLimit, navFetches>>
    /\ UNCHANGED <<codecVars, navStoreVars, navSeriesVars, nettingVars, descriptionVars, chartVars, fileVars, marketVars, snapshotVars, keyboardVars>>

\* the user removes a row
RemovePosition ==
    /\ Len(requests) < MaxOperations
    /\ \E id \in {"", "id1"} :
           requests' = Sent(requests, removePosition(accountId, id))
    /\ UNCHANGED <<accountId, csvFile, csvHandled, csvError>>
    /\ UNCHANGED <<navRebuildRunning, navLimit, navFetches>>
    /\ UNCHANGED <<codecVars, navStoreVars, navSeriesVars, nettingVars, descriptionVars, chartVars, fileVars, marketVars, snapshotVars, keyboardVars>>

\* the user picks a sector for a row
UpdatePositionSector ==
    /\ Len(requests) < MaxOperations
    /\ \E row \in PositionRowInputs :
           requests' = Sent(requests, updatePositionSector(accountId, row, "Tech"))
    /\ UNCHANGED <<accountId, csvFile, csvHandled, csvError>>
    /\ UNCHANGED <<navRebuildRunning, navLimit, navFetches>>
    /\ UNCHANGED <<codecVars, navStoreVars, navSeriesVars, nettingVars, descriptionVars, chartVars, fileVars, marketVars, snapshotVars, keyboardVars>>

\* the user edits the owner of a row
UpdatePositionOwner ==
    /\ Len(requests) < MaxOperations
    /\ \E row \in PositionRowInputs, owner \in OwnerInputs :
           requests' = Sent(requests, updatePositionOwner(accountId, row, owner))
    /\ UNCHANGED <<accountId, csvFile, csvHandled, csvError>>
    /\ UNCHANGED <<navRebuildRunning, navLimit, navFetches>>
    /\ UNCHANGED <<codecVars, navStoreVars, navSeriesVars, nettingVars, descriptionVars, chartVars, fileVars, marketVars, snapshotVars, keyboardVars>>

\* the user edits the entry date of a row
UpdatePositionEntryDate ==
    /\ Len(requests) < MaxOperations
    /\ \E row \in PositionRowInputs, value \in EntryDateInputs :
           requests' = Sent(requests, updatePositionEntryDate(accountId, row, value))
    /\ UNCHANGED <<accountId, csvFile, csvHandled, csvError>>
    /\ UNCHANGED <<navRebuildRunning, navLimit, navFetches>>
    /\ UNCHANGED <<codecVars, navStoreVars, navSeriesVars, nettingVars, descriptionVars, chartVars, fileVars, marketVars, snapshotVars, keyboardVars>>

\* the user sets the cash balance
UpdateCash ==
    /\ Len(requests) < MaxOperations
    /\ \E cashInput \in CashInputs :
           requests' = Sent(requests, updateCash(accountId, cashInput))
    /\ UNCHANGED <<accountId, csvFile, csvHandled, csvError>>
    /\ UNCHANGED <<navRebuildRunning, navLimit, navFetches>>
    /\ UNCHANGED <<codecVars, navStoreVars, navSeriesVars, nettingVars, descriptionVars, chartVars, fileVars, marketVars, snapshotVars, keyboardVars>>

\* the user resets the portfolio
ResetPortfolio ==
    /\ Len(requests) < MaxOperations
    /\ \E resetCash \in ResetCashInputs :
           requests' = Sent(requests, resetPortfolio(resetCash))
    /\ UNCHANGED <<accountId, csvFile, csvHandled, csvError>>
    /\ UNCHANGED <<navRebuildRunning, navLimit, navFetches>>
    /\ UNCHANGED <<codecVars, navStoreVars, navSeriesVars, nettingVars, descriptionVars, chartVars, fileVars, marketVars, snapshotVars, keyboardVars>>

\* the request is sent whatever navRebuildRunning is
evenWhileRunning(running, log, request) == Append(log, request)

\* if (navRebuildRunning) return; ahead of the request
unlessRunning(running, log, request) == IF running THEN log ELSE Append(log, request)

\* the endpoints of rebuildNavHistory and clearNavHistory
NavHistoryEndpoints == {"/admin/rebuild-nav", "/admin/clear-nav"}

\* the user rebuilds the NAV history: nothing while a rebuild or clear is running
RebuildNavHistory ==
    /\ Len(requests) < MaxOperations
    /\ requests' = unlessRunning(navRebuildRunning, requests, rebuildNavHistory(accountId))
    /\ navRebuildRunning' = TRUE
    /\ UNCHANGED <<accountId, csvFile, csvHandled, csvError, navLimit, navFetches>>
    /\ UNCHANGED <<codecVars, navStoreVars, navSeriesVars, nettingVars, descriptionVars, chartVars, fileVars, marketVars, snapshotVars, keyboardVars>>

\* the user clears the NAV history: nothing while a rebuild or clear is running
ClearNavHistoryInApp ==
    /\ Len(requests) < MaxOperations
    /\ requests' = unlessRunning(navRebuildRunning, requests, clearNavHistory(accountId))
    /\ navRebuildRunning' = TRUE
    /\ UNCHANGED <<accountId, csvFile, csvHandled, csvError, navLimit, navFetches>>
    /\ UNCHANGED <<codecVars, navStoreVars, navSeriesVars, nettingVars, descriptionVars, chartVars, fileVars, marketVars, snapshotVars, keyboardVars>>

\* the user imports the pasted NAV lines
ImportNavText ==
    /\ Len(requests) < MaxOperations
    /\ \E navPasteText \in NavPasteInputs :
           requests' = Sent(requests, importNavText(accountId, navPasteText))
    /\ UNCHANGED <<accountId, csvFile, csvHandled, csvError>>
    /\ UNCHANGED <<navRebuildRunning, navLimit, navFetches>>
    /\ UNCHANGED <<codecVars, navStoreVars, navSeriesVars, nettingVars, descriptionVars, chartVars, fileVars, marketVars, snapshotVars, keyboardVars>>

\* the user drops a file on the import control
ImportFile ==
    /\ Len(requests) < MaxOperations
    /\ \E file \in OperationFileInputs : \E r \in {importCsvFile(file, accountId)} :
           /\ csvFile' = file
           /\ csvHandled' = r.handled
           /\ csvError' = r.error
           /\ requests' = Sent(requests, r.request)
    /\ UNCHANGED <<accountId, navRebuildRunning, navLimit, navFetches>>
    /\ UNCHANGED <<codecVars, navStoreVars, navSeriesVars, nettingVars, descriptionVars, chartVars, fileVars, marketVars, snapshotVars, keyboardVars>>

\* the endpoints after whose success the handler calls fetchNav(navLimit)
RefetchEndpoints == {"/admin/rebuild-nav", "/admin/clear-nav", "/admin/import-nav-text"}

\* the call of fetchNav that follows the success of a request: resetPortfolio
\* calls fetchNav(), the handlers of RefetchEndpoints fetchNav(navLimit), and
\* the others do not call it
refetchAfter(endpoint, limit, account, fetches) ==
    IF endpoint = "/admin/reset" THEN Append(fetches, fetchNav(<<>>, account))
    ELSE IF endpoint \in RefetchEndpoints THEN Append(fetches, fetchNav(<<limit>>, account))
    ELSE fetches

\* the status of a request once the server answered: after the success of a
\* rebuild or clear the handler awaits fetchNav and refreshAll before its
\* finally block
answered(endpoint, ok) ==
    IF ~ok THEN "failed"
    ELSE IF endpoint \in NavHistoryEndpoints THEN "refreshing"
    ELSE "done"

\* the server answers the request of a handler other than importCsvFile: the
\* rest of its try block runs up to its next await, or its catch block and,
\* for a rebuild or clear, the finally block
OperationResponse(i, ok) ==
    /\ i \in 1..Len(requests)
    /\ requests[i].status = "pending"
    /\ requests[i].endpoint \notin ImportEndpoints
    /\ requests' = [requests EXCEPT ![i].status = answered(requests[i].endpoint, ok)]
    /\ navFetches' = IF ok THEN refetchAfter(requests[i].endpoint, navLimit, accountId,
                                             navFetches)
                     ELSE navFetches
    /\ navRebuildRunning' =
           IF requests[i].endpoint \in NavHistoryEndpoints /\ ~ok
           THEN FALSE ELSE navRebuildRunning
    /\ UNCHANGED <<accountId, csvFile, csvHandled, csvError, navLimit>>
    /\ UNCHANGED <<codecVars, navStoreVars, navSeriesVars, nettingVars, descriptionVars, chartVars, fileVars, marketVars, snapshotVars, keyboardVars>>

OperationSucceeds == \E i \in 1..Len(requests) : OperationResponse(i, TRUE)

OperationFails == \E i \in 1..Len(requests) : OperationResponse(i, FALSE)

\* fetchNav and refreshAll, which do not throw, are settled: the finally block
\* of the rebuild or clear runs
NavRefreshCompletes ==
    /\ \E i \in 1..Len(requests) :
           /\ requests[i].status = "refreshing"
           /\ requests' = [requests EXCEPT ![i].status = "done"]
    /\ navRebuildRunning' = FALSE
    /\ UNCHANGED <<accountId, csvFile, csvHandled, csvError, navLimit, navFetches>>
    /\ UNCHANGED <<codecVars, navStoreVars, navSeriesVars, nettingVars, descriptionVars, chartVars, fileVars, marketVars, snapshotVars, keyboardVars>>

OperationsNext ==
    \/ SavePosition \/ RemovePosition
    \/ UpdatePositionSector \/ UpdatePositionOwner \/ UpdatePositionEntryDate
    \/ UpdateCash \/ ResetPortfolio
    \/ RebuildNavHistory \/ ClearNavHistoryInApp
    \/ ImportNavText \/ ImportFile
    \/ OperationSucceeds \/ OperationFails \/ NavRefreshCompletes
    \/ ImportSucceeds \/ ImportFails

(***************************************************************************)
(* The NAV store: nav_snapshots and the series read from it                *)
(***************************************************************************)
\* an optional number: None of Python, NULL of the table
None == [null |-> TRUE, v |-> 0]
Some(n) == [null |-> FALSE, v |-> n]

Accounts == {"IRA", "ROTH"}

\* the last date; dates are numbered in calendar order
MaxDate == 3

Dates == 1..MaxDate

NoRow == [stored |-> FALSE, nav |-> 0, bench |-> None]

\* store_nav_snapshot as it was: float(bench or nav)
store_nav_snapshot_before(snaps, account, asof, nav, bench) ==
    [snaps EXCEPT ![account, asof] =
        [stored |-> TRUE, nav |-> nav,
         bench |-> IF bench.null \/ bench.v = 0 THEN Some(nav) ELSE bench]]

\* a write that keeps no other row
store_nav_snapshot_only(snaps, account, asof, nav, bench) ==
    [k \in DOMAIN snaps |->
        IF k = <<account, asof>>
        THEN [stored |-> TRUE, nav |-> nav,
              bench |-> IF ~bench.null /\ bench.v > 0 THEN bench ELSE None]
        ELSE NoRow]

\* store_nav_snapshot: INSERT OR REPLACE of the row of (account, asof) with
\* bench_val = float(bench) if bench is not None and bench > 0 else None
store_nav_snapshot(snaps, account, asof, nav, bench) ==
    [snaps EXCEPT ![account, asof] =
        [stored |-> TRUE, nav |-> nav,
         bench |-> IF ~bench.null /\ bench.v > 0 THEN bench ELSE None]]

\* clear_nav_history: the rows of one account, or of all with scope "ALL", go
clear_nav_history(snaps, scope) ==
    [k \in DOMAIN snaps |->
        IF scope = "ALL" \/ k[1] = scope THEN NoRow ELSE snaps[k]]

\* whether a row that was stored is stored no more
Removed(before, after) ==
    \E k \in DOMAIN before : before[k].stored /\ ~after[k].stored

NavInputs == {1000}

\* the dates of the files imported
AsofInputs == {1, 2}

BenchInputs == {None, Some(0), Some(-5), Some(50)}

NoNavOp == [op |-> "none", account |-> "", asof |-> 0, bench |-> None, removed |-> FALSE]

\* Admin.importPositions for the account of a positions file: the old chart
\* data is removed, then the snapshot of the file's date is stored.  What
\* clear_nav_history() covers, the account or every account, is not fixed by
\* the sources, so either may happen
ImportPositions(account, asof, nav, bench) ==
    \E scope \in {account, "ALL"} :
        LET cleared == clear_nav_history(navSnapshots, scope)
            after == store_nav_snapshot(cleared, account, asof, nav, bench)
        IN  /\ navSnapshots' = after
            /\ navOp' = [op |-> "importPositions", account |-> account, asof |-> asof,
                         bench |-> bench, removed |-> Removed(navSnapshots, after)]
            /\ UNCHANGED <<codecVars, importVars, navSeriesVars, nettingVars, descriptionVars, operationVars, chartVars, fileVars, marketVars, snapshotVars, keyboardVars>>

\* Admin.importBalances for an account of a balances file
ImportBalances(account, asof, nav, bench) ==
    LET after == store_nav_snapshot(navSnapshots, account, asof, nav, bench)
    IN  /\ navSnapshots' = after
        /\ navOp' = [op |-> "importBalances", account |-> account, asof |-> asof,
                     bench |-> bench, removed |-> Removed(navSnapshots, after)]
        /\ UNCHANGED <<codecVars, importVars, navSeriesVars, nettingVars, descriptionVars, operationVars, chartVars, fileVars, marketVars, snapshotVars, keyboardVars>>

\* /admin/clear-nav, with the account parameter or, for ALL, without it
ClearNavHistory(scope) ==
    LET after == clear_nav_history(navSnapshots, scope)
    IN  /\ navSnapshots' = after
        /\ navOp' = [op |-> "clearNavHistory", account |-> scope, asof |-> 0,
                     bench |-> None, removed |-> Removed(navSnapshots, after)]
        /\ UNCHANGED <<codecVars, importVars, navSeriesVars, nettingVars, descriptionVars, operationVars, chartVars, fileVars, marketVars, snapshotVars, keyboardVars>>

ImportsPositions ==
    \E account \in Accounts, asof \in AsofInputs, nav \in NavInputs, bench \in BenchInputs :
        ImportPositions(account, asof, nav, bench)

ImportsBalances ==
    \E account \in Accounts, asof \in AsofInputs, nav \in NavInputs, bench \in BenchInputs :
        ImportBalances(account, asof, nav, bench)

ClearsNavHistory == \E scope \in Accounts \cup {"ALL"} : ClearNavHistory(scope)

NavStoreNext == ImportsPositions \/ ImportsBalances \/ ClearsNavHistory

\* the per-date rule without the carry forward: the cache of the date or nothing
bench_priority_no_fill(bench_raw, last_bench_raw) ==
    [last_bench_raw |-> last_bench_raw,
     effective_bench |-> IF ~bench_raw.null /\ bench_raw.v > 0 THEN bench_raw ELSE None]

\* the per-date rule of _get_nav_series_from_snapshots:
\*   if bench_raw and bench_raw > 0: last_bench_raw = bench_raw
\*   effective_bench = last_bench_raw if last_bench_raw and last_bench_raw > 0 else None
bench_priority(bench_raw, last_bench_raw) ==
    LET last == IF ~bench_raw.null /\ bench_raw.v # 0 /\ bench_raw.v > 0
                THEN bench_raw ELSE last_bench_raw
    IN  [last_bench_raw |-> last,
         effective_bench |-> IF ~last.null /\ last.v # 0 /\ last.v > 0 THEN last ELSE None]

\* the bench of a point for which no cache value is known, taken from nav alone
nav_fallback(row) == row.nav

\* the bench of a point for which no cache value is known: the stored bench
\* when it is positive, the nav as the last resort
stored_fallback(row) ==
    IF ~row.bench.null /\ row.bench.v > 0 THEN row.bench.v ELSE row.nav

\* _get_nav_series_from_snapshots: a point for each stored date from d on, in
\* date order, the last known cache level carried along
RECURSIVE nav_series_from(_, _, _, _, _)
nav_series_from(snaps, bench_map, account, d, last_bench_raw) ==
    IF d \notin DOMAIN bench_map THEN <<>>
    ELSE IF ~snaps[account, d].stored
    THEN nav_series_from(snaps, bench_map, account, d + 1, last_bench_raw)
    ELSE LET row == snaps[account, d]
             step == bench_priority(bench_map[d], last_bench_raw)
         IN  <<[date |-> d, nav |-> row.nav,
                bench |-> IF step.effective_bench.null THEN stored_fallback(row)
                          ELSE step.effective_bench.v]>>
             \o nav_series_from(snaps, bench_map, account, d + 1, step.last_bench_raw)

get_nav_series(snaps, bench_map, account) ==
    nav_series_from(snaps, bench_map, account, 1, None)

\* the levels the price cache may hold for a date
CacheInputs == {None, Some(0), Some(60), Some(70)}

\* the rows the table may hold for a key
StoredRows ==
    {NoRow} \cup {[stored |-> TRUE, nav |-> n, bench |-> b] :
                      n \in NavInputs, b \in {None, Some(50)}}

NoSeries == [account |-> "", points |-> <<>>]

\* /api/portfolio/nav for an account
FetchNav(account) ==
    /\ navSeries' = [account |-> account,
                     points |-> get_nav_series(navSnapshots, benchMap, account)]
    /\ UNCHANGED <<navSnapshots, navOp, benchMap>>
    /\ UNCHANGED <<codecVars, importVars, nettingVars, descriptionVars, operationVars, chartVars, fileVars, marketVars, snapshotVars, keyboardVars>>

FetchesNav == \E account \in Accounts : FetchNav(account)

NavSeriesNext == FetchesNav

(***************************************************************************)
(* Strategy netting: positionsDisplay                                      *)
(***************************************************************************)
\* Math.min(...values) of a set of non-negative integers: Infinity when empty
MathMin(values) ==
    IF values = {} THEN Infinity
    ELSE Num(CHOOSE m \in values : \A n \in values : m <= n)

\* the key a row is grouped by: row.strategy_id || row.strategy
strategyIdOf(row) == IF row.strategy_id # "" THEN row.strategy_id ELSE row.strategy

\* whether a row goes into a strategy group
isGrouped(row) == ToLower(row.asset_class) = "option" /\ strategyIdOf(row) # ""

\* the rows the strategy filter keeps
filteredRows(rows, filter) ==
    IF filter = "" THEN rows
    ELSE SelectSeq(rows, LAMBDA row :
             Includes(ToLower(IF row.strategy_name # "" THEN row.strategy_name
                              ELSE row.strategy),
                      ToLower(filter)))

\* the rows carrying a key whatever their class
legsOfAnyClass(rows, strategyId) ==
    SelectSeq(rows, LAMBDA row : strategyIdOf(row) = strategyId)

\* grouped.get(strategyId): the legs of a group, in the order of the rows
legsOf(rows, strategyId) ==
    SelectSeq(rows, LAMBDA row : isGrouped(row) /\ strategyIdOf(row) = strategyId)

\* units of a group:
\*   Math.min(...|qty| of the legs with |qty| > 0) || |qty of the first leg| || 1
unitsOf(legs) ==
    LET smallest == MathMin({Abs(legs[i].qty.v) : i \in 1..Len(legs)} \ {0})
        first == Num(Abs(legs[1].qty.v))
    IN  IF Truthy(smallest) THEN smallest
        ELSE IF Truthy(first) THEN first
        ELSE Num(1)

\* a price: the fraction n / d in lowest terms, d positive
RECURSIVE Gcd(_, _)
Gcd(a, b) == IF b = 0 THEN a ELSE Gcd(b, a % b)

Ratio(n, d) ==
    IF n = 0 THEN [n |-> 0, d |-> 1]
    ELSE [n |-> n \div Gcd(Abs(n), d), d |-> d \div Gcd(Abs(n), d)]

RatioPlus(x, y) == Ratio(x.n * y.d + y.n * x.d, x.d * y.d)

RatioTimes(x, k) == Ratio(x.n * k, x.d)

\* an avg_cost that is null or missing
NoCost == [n |-> 0, d |-> 0]

\* Number(legs[0]?.multiplier || 100) || 100, a missing multiplier being 0
baseMultiplierOf(legs) == IF legs[1].multiplier # 0 THEN legs[1].multiplier ELSE 100

\* Number(leg.multiplier || baseMultiplier) || baseMultiplier
multiplierOf(leg, baseMultiplier) ==
    IF leg.multiplier # 0 THEN leg.multiplier ELSE baseMultiplier

\* avg: Number(leg.avg_cost ?? leg.price ?? 0)
avgOf(leg) == IF leg.avg_cost = NoCost THEN leg.price ELSE leg.avg_cost

\* price: rawPrice > 0 ? rawPrice : avg > 0 ? avg : 0
priceOf(leg) ==
    IF leg.price.n > 0 THEN leg.price
    ELSE IF avgOf(leg).n > 0 THEN avgOf(leg)
    ELSE Ratio(0, 1)

\* netValue over the legs from i on: the sum of qty * price * multiplier
RECURSIVE netValueFrom(_, _, _)
netValueFrom(legs, i, baseMultiplier) ==
    IF i > Len(legs) THEN Ratio(0, 1)
    ELSE RatioPlus(RatioTimes(priceOf(legs[i]),
                              legs[i].qty.v * multiplierOf(legs[i], baseMultiplier)),
                   netValueFrom(legs, i + 1, baseMultiplier))

\* netAvgValue over the legs from i on: the sum of qty * avg * multiplier
RECURSIVE netAvgValueFrom(_, _, _)
netAvgValueFrom(legs, i, baseMultiplier) ==
    IF i > Len(legs) THEN Ratio(0, 1)
    ELSE RatioPlus(RatioTimes(avgOf(legs[i]),
                              legs[i].qty.v * multiplierOf(legs[i], baseMultiplier)),
                   netAvgValueFrom(legs, i + 1, baseMultiplier))

\* a net value per unit, the baseline multiplier left in
perUnitOnly(value, units, baseMultiplier) ==
    IF ~Truthy(units) \/ ~IsFinite(units) THEN Ratio(0, 1)
    ELSE Ratio(value.n, value.d * units.v)

\* units ? value / (units * baseMultiplier) : 0, a finite value over Infinity
\* being 0
perUnit(value, units, baseMultiplier) ==
    IF ~Truthy(units) \/ ~IsFinite(units) THEN Ratio(0, 1)
    ELSE Ratio(value.n, value.d * units.v * baseMultiplier)

netPriceOf(legs) ==
    perUnit(netValueFrom(legs, 1, baseMultiplierOf(legs)), unitsOf(legs),
            baseMultiplierOf(legs))

netAvgCostOf(legs) ==
    perUnit(netAvgValueFrom(legs, 1, baseMultiplierOf(legs)), unitsOf(legs),
            baseMultiplierOf(legs))

\* summarySide: netValue < 0 ? "SHORT" : "LONG"
summarySideOf(legs) ==
    IF netValueFrom(legs, 1, baseMultiplierOf(legs)).n < 0 THEN "SHORT" ELSE "LONG"

\* the name shown for a group
strategyNameOf(legs, strategyId) ==
    IF legs[1].strategy_name # "" THEN legs[1].strategy_name
    ELSE IF legs[1].strategy # "" THEN legs[1].strategy
    ELSE "Strategy " \o SubSeq(strategyId, 1, Min(6, Len(strategyId)))

\* the summary row of a group
summaryOf(legs, strategyId) ==
    [legs[1] EXCEPT !.symbol = strategyNameOf(legs, strategyId),
                    !.asset_class = "strategy",
                    !.qty = unitsOf(legs),
                    !.price = netPriceOf(legs),
                    !.avg_cost = netAvgCostOf(legs),
                    !.position_side = summarySideOf(legs),
                    !.strategy = strategyNameOf(legs, strategyId),
                    !.strategy_id = strategyId,
                    !.strategy_name = strategyNameOf(legs, strategyId),
                    !.isStrategySummary = TRUE,
                    !.legCount = Len(legs)]

\* a leg as it is shown under its summary row
legOf(leg, legs, strategyId) ==
    [leg EXCEPT !.isStrategyLeg = TRUE,
                !.strategy_id = strategyId,
                !.strategy_name = strategyNameOf(legs, strategyId)]

\* a group summarized whatever the number of its legs
groupRowsSummarized(legs, strategyId, collapsed) ==
    <<summaryOf(legs, strategyId)>>
    \o (IF strategyId \in collapsed THEN <<>>
        ELSE [i \in 1..Len(legs) |-> legOf(legs[i], legs, strategyId)])

\* a group shown with its legs whether collapsed or not
groupRowsExpanded(legs, strategyId, collapsed) ==
    IF Len(legs) < 2 THEN legs
    ELSE <<summaryOf(legs, strategyId)>>
         \o [i \in 1..Len(legs) |-> legOf(legs[i], legs, strategyId)]

\* the rows shown for a group: a group of one leg as it is, a larger one as a
\* summary row with, unless collapsed, its legs
groupRows(legs, strategyId, collapsed) ==
    IF Len(legs) < 2 THEN legs
    ELSE <<summaryOf(legs, strategyId)>>
         \o (IF strategyId \in collapsed THEN <<>>
             ELSE [i \in 1..Len(legs) |-> legOf(legs[i], legs, strategyId)])

\* the second loop of positionsDisplay over the rows from i on: an ungrouped
\* row at its place, a group at the place of its first leg
RECURSIVE displayFrom(_, _, _)
displayFrom(rows, i, collapsed) ==
    IF i > Len(rows) THEN <<>>
    ELSE LET row == rows[i]
             strategyId == strategyIdOf(row)
             first == \A j \in 1..(i - 1) :
                          ~(isGrouped(rows[j]) /\ strategyIdOf(rows[j]) = strategyId)
         IN  (IF ~isGrouped(row) THEN <<row>>
              ELSE IF first THEN groupRows(legsOf(rows, strategyId), strategyId, collapsed)
              ELSE <<>>)
             \o displayFrom(rows, i + 1, collapsed)

positionsDisplay(rows, filter, collapsed) ==
    displayFrom(filteredRows(rows, filter), 1, collapsed)

\* a row of the snapshot: its class, strategy, quantity, price, average cost
\* and multiplier (0 for a missing one)
PositionInput(asset_class, strategy_id, strategy, qty, price, avg_cost, multiplier) ==
    [asset_class |-> asset_class, strategy_id |-> strategy_id, strategy |-> strategy,
     qty |-> Num(qty), price |-> Ratio(price, 1), avg_cost |-> avg_cost,
     multiplier |-> multiplier]

\* what a row of the snapshot may be
PositionInputs ==
    {PositionInput("EQUITY", "s1", "Vol Overlay", 2, 5, Ratio(5, 1), 1),
     PositionInput("OPTION", "", "", 2, 5, Ratio(5, 1), 100),
     PositionInput("OPTION", "", "s1", 2, 3, NoCost, 10),
     PositionInput("OPTION", "s2", "Macro Hedges", -3, 0, Ratio(4, 1), 0),
     PositionInput("OPTION", "s1", "Vol Overlay", 0, 5, Ratio(5, 1), 100),
     PositionInput("OPTION", "s1", "Vol Overlay", 1, 5, Ratio(4, 1), 100),
     PositionInput("OPTION", "s1", "Vol Overlay", -1, 2, Ratio(2, 1), 100)}

\* the most rows of a snapshot
MaxPositions == 3

\* the snapshots: each row with its instrument id, unflagged; of the fields of
\* a row those that group, size and price a strategy are kept
PositionLists(maxRows) ==
    UNION {{[i \in 1..n |->
                [instrument_id |-> i, symbol |-> "SYM", asset_class |-> attrs[i].asset_class,
                 strategy_id |-> attrs[i].strategy_id, strategy |-> attrs[i].strategy,
                 strategy_name |-> "", qty |-> attrs[i].qty,
                 price |-> attrs[i].price, avg_cost |-> attrs[i].avg_cost,
                 multiplier |-> attrs[i].multiplier,
                 position_side |-> IF attrs[i].qty.v < 0 THEN "SHORT" ELSE "LONG",
                 isStrategySummary |-> FALSE, isStrategyLeg |-> FALSE, legCount |-> 0]] :
            attrs \in [1..n -> PositionInputs]} : n \in 0..maxRows}

StrategyIds == {"s1", "s2"}

\* the strategy groups of the strategy panel
strategyGroups == <<"US L/S", "Vol Overlay", "Macro Hedges">>

\* toggleStrategy, from the button of a summary row: the legs of the strategy
\* are hidden or shown
ToggleStrategy(strategyId) ==
    /\ \E i \in 1..Len(displayed) :
           displayed[i].isStrategySummary /\ displayed[i].strategy_id = strategyId
    /\ collapsedStrategies' = IF strategyId \in collapsedStrategies
                              THEN collapsedStrategies \ {strategyId}
                              ELSE collapsedStrategies \cup {strategyId}
    /\ displayed' = positionsDisplay(positions, strategyFilter, collapsedStrategies')
    /\ UNCHANGED <<positions, strategyFilter>>
    /\ UNCHANGED <<codecVars, importVars, navStoreVars, navSeriesVars, descriptionVars, operationVars, chartVars, fileVars, marketVars, snapshotVars, keyboardVars>>

\* setStrategyFilter
SetStrategyFilter(filter) ==
    /\ strategyFilter' = filter
    /\ displayed' = positionsDisplay(positions, filter, collapsedStrategies)
    /\ UNCHANGED <<positions, collapsedStrategies>>
    /\ UNCHANGED <<codecVars, importVars, navStoreVars, navSeriesVars, descriptionVars, operationVars, chartVars, fileVars, marketVars, snapshotVars, keyboardVars>>

\* a click on a group of the strategy panel: the filter is set to the group, or
\* cleared when it is the group already
SelectStrategyGroup(group) ==
    SetStrategyFilter(IF strategyFilter = group THEN "" ELSE group)

\* a click on "All Strategies"
SelectAllStrategies == strategyFilter # "" /\ SetStrategyFilter("")

TogglesStrategy == \E strategyId \in StrategyIds : ToggleStrategy(strategyId)

SelectsStrategyGroup == \E group \in Range(strategyGroups) : SelectStrategyGroup(group)

NettingNext == TogglesStrategy \/ SelectsStrategyGroup \/ SelectAllStrategies

(***************************************************************************)
(* PortfolioChart: the points of the portfolio line and the benchmark line *)
(***************************************************************************)
\* the most points a NAV series given to the chart has
MaxChartPoints == 2

\* the date of the i-th point of a series
ChartDates == <<"2024-01-02", "2024-01-03", "2024-02-01">>

\* nav, bench and twr of a NavPoint as the server sends them: a number or null
ChartValueInputs ==
    {[nav |-> Some(100), bench |-> None, twr |-> None],
     [nav |-> Some(100), bench |-> Some(50), twr |-> None],
     [nav |-> Some(110), bench |-> Some(55), twr |-> None],
     [nav |-> Some(0), bench |-> None, twr |-> None],
     [nav |-> Some(110), bench |-> Some(0), twr |-> None],
     [nav |-> Some(100), bench |-> Some(50), twr |-> Some(2)]}

\* the points a series can have at its i-th place: one of the values at the
\* i-th date, or a point without date
ChartPointInputs(i) ==
    {[date |-> ChartDates[i], nav |-> v.nav, bench |-> v.bench, twr |-> v.twr] :
         v \in ChartValueInputs}
    \cup {[date |-> "", nav |-> Some(100), bench |-> Some(50), twr |-> None]}

\* the NAV series of at most maxPoints points, in date order
ChartDataInputs(maxPoints) ==
    UNION {{data \in [1..n -> UNION {ChartPointInputs(i) : i \in 1..n}] :
                \A i \in 1..n : data[i] \in ChartPointInputs(i)} : n \in 0..maxPoints}

NoChartProps == [data |-> <<>>, showBench |-> TRUE]

\* drawn: the effect that sets the data of the lines has run
NoChartLines == [drawn |-> FALSE, navData |-> <<>>, benchData |-> <<>>]

\* Number(x) for a number or null: Number(null) is 0
NumberOrZero(x) == IF x.null THEN 0 ELSE x.v

\* a ?? b
Coalesce(a, b) == IF a.null THEN b ELSE a

\* date.split("-")
RECURSIVE SplitDashes(_, _)
SplitDashes(s, part) ==
    IF s = "" THEN <<part>>
    ELSE IF Head(s) = "-" THEN <<part>> \o SplitDashes(Tail(s), "")
    ELSE SplitDashes(Tail(s), part \o Head(s))

\* const parts = date.split("-").map((v) => Number(v));
\* return { year: parts[0], month: parts[1], day: parts[2] }
toBusinessDay(date) ==
    Only({ [year |-> JsNumber(parts[1]).v \div 10000,
            month |-> JsNumber(parts[2]).v \div 10000,
            day |-> JsNumber(parts[3]).v \div 10000] :
               parts \in {SplitDashes(date, "")} })

\* data.filter((point) => Number.isFinite(Number(point.nav)) && Boolean(point.date))
cleaned(data) == SelectSeq(data, LAMBDA point : point.date # "")

\* (point) => Number(point.twr ?? point.nav)
navAccessor(point) == NumberOrZero(Coalesce(point.twr, point.nav))

\* points.find(test): the place of the first point that passes, 0 without one
FindFirst(points, Test(_)) ==
    IF \E i \in 1..Len(points) : Test(points[i])
    THEN CHOOSE i \in 1..Len(points) : Test(points[i]) /\ \A j \in 1..(i - 1) : ~Test(points[j])
    ELSE 0

\* const firstNav = cleaned.find((p) => navAccessor(p) > 0);
\* let baseNav = navAccessor(firstNav ?? cleaned[0]);
\* if (!Number.isFinite(baseNav) || baseNav <= 0) baseNav = 1;
baseNavOf(points) ==
    LET firstNav == FindFirst(points, LAMBDA p : navAccessor(p) > 0)
        base == navAccessor(points[IF firstNav # 0 THEN firstNav ELSE 1])
    IN  IF base <= 0 THEN 1 ELSE base

\* const firstBench = cleaned.find((p) => Number(p.bench) > 0)?.bench;
\* let baseBench = Number(firstBench ?? cleaned[0].bench ?? cleaned[0].nav);
\* if (!Number.isFinite(baseBench) || baseBench <= 0) baseBench = baseNav;
baseBenchOf(points) ==
    LET firstBench == FindFirst(points, LAMBDA p : NumberOrZero(p.bench) > 0)
        base == IF firstBench # 0 THEN NumberOrZero(points[firstBench].bench)
                ELSE NumberOrZero(Coalesce(points[1].bench, points[1].nav))
    IN  IF base <= 0 THEN baseNavOf(points) ELSE base

\* ((x / base) - 1) * 100 for a base above 0, as a fraction in lowest terms
PercentReturn(x, base) == Ratio((x - base) * 100, base)

\* cleaned.map((p) => ({ time: toBusinessDay(p.date),
\*                       value: ((navAccessor(p) / baseNav) - 1) * 100 }))
\*        .filter((p) => Number.isFinite(p.value)): every value is finite, the
\* numbers of the points being finite and the base above 0
navDataOf(points) ==
    Only({ [i \in 1..Len(points) |->
               [time |-> toBusinessDay(points[i].date),
                value |-> PercentReturn(navAccessor(points[i]), baseNav)]] :
               baseNav \in {baseNavOf(points)} })

\* value: ((Number(p.bench ?? p.nav) / (baseBench || baseNav)) - 1) * 100
benchDataOf(points) ==
    Only({ [i \in 1..Len(points) |->
               [time |-> toBusinessDay(points[i].date),
                value |-> PercentReturn(NumberOrZero(Coalesce(points[i].bench, points[i].nav)),
                                        baseBench)]] :
               baseBench \in {baseBenchOf(points)} })

\* the effect on [data, showBench]: setData([]) on every line without data,
\* else navSeries.setData(navData) and benchSeries.setData(showBench ? benchData : [])
chartEffect(props) ==
    Only({ IF points = <<>>
           THEN [drawn |-> TRUE, navData |-> <<>>, benchData |-> <<>>]
           ELSE [drawn |-> TRUE, navData |-> navDataOf(points),
                 benchData |-> IF props.showBench THEN benchDataOf(points) ELSE <<>>] :
               points \in {cleaned(props.data)} })

\* the chart is mounted: the effect runs for the first time
MountChart ==
    /\ ~chartLines.drawn
    /\ chartLines' = chartEffect(chartProps)
    /\ UNCHANGED chartProps
    /\ UNCHANGED <<codecVars, importVars, navStoreVars, navSeriesVars, nettingVars, descriptionVars, operationVars, fileVars, marketVars, snapshotVars, keyboardVars>>

\* the benchmark line is switched on or off; the effect runs again
ToggleBench ==
    /\ chartLines.drawn
    /\ chartProps' = [chartProps EXCEPT !.showBench = ~chartProps.showBench]
    /\ chartLines' = chartEffect(chartProps')
    /\ UNCHANGED <<codecVars, importVars, navStoreVars, navSeriesVars, nettingVars, descriptionVars, operationVars, fileVars, marketVars, snapshotVars, keyboardVars>>

ChartNext == MountChart \/ ToggleBench

(***************************************************************************)
(* connectMarketStream: the market WebSocket and its reconnect timer       *)
(***************************************************************************)
\* the most WebSockets created
MaxSockets == 6

\* the symbol lists the dashboard streams
StreamSymbolInputs == {<<>>, <<"SPY">>, <<"SPY", "QQQ">>, <<"SPY", "", "SPY">>}

\* Array.from(new Set(symbols.filter(Boolean)))
RECURSIVE UniqueSymbols(_, _)
UniqueSymbols(symbols, seen) ==
    IF symbols = <<>> THEN seen
    ELSE UniqueSymbols(Tail(symbols),
                       IF Head(symbols) = "" \/ \E k \in 1..Len(seen) : seen[k] = Head(symbols)
                       THEN seen ELSE Append(seen, Head(symbols)))

\* symbols.join(",")
RECURSIVE JoinSymbols(_)
JoinSymbols(symbols) ==
    IF symbols = <<>> THEN ""
    ELSE IF Len(symbols) = 1 THEN symbols[1]
    ELSE symbols[1] \o "," \o JoinSymbols(Tail(symbols))

\* the module variables of the store and the objects of the browser they
\* refer to
MarketState ==
    [marketSocket |-> marketSocket, marketSymbols |-> marketSymbols,
     reconnectTimer |-> reconnectTimer, reconnectAttempts |-> reconnectAttempts,
     webSockets |-> webSockets, timeouts |-> timeouts]

\* ws.close(): a socket that is connecting or open is closing until its close
\* event
closeSocket(sockets, ws) ==
    IF sockets[ws].readyState \in {"CONNECTING", "OPEN"}
    THEN [sockets EXCEPT ![ws].readyState = "CLOSING"]
    ELSE sockets

\* clearTimeout(id): a pending timer will not fire
clearTimeout(timers, id) ==
    IF timers[id].status = "pending" THEN [timers EXCEPT ![id].status = "cleared"]
    ELSE timers

\* if (marketSocket && marketSymbols.join(",") === unique.join(",")) return;
sameStream(st, unique) ==
    st.marketSocket # 0 /\ JoinSymbols(st.marketSymbols) = JoinSymbols(unique)

\* connectMarketStream past its two early returns: the current socket is
\* closed, the timer cleared, the attempts reset and a WebSocket created
openStream(st, unique) ==
    [marketSymbols |-> unique,
     webSockets |-> Append(IF st.marketSocket # 0
                           THEN closeSocket(st.webSockets, st.marketSocket)
                           ELSE st.webSockets,
                           [symbols |-> unique, readyState |-> "CONNECTING"]),
     marketSocket |-> Len(st.webSockets) + 1,
     timeouts |-> IF st.reconnectTimer # 0 THEN clearTimeout(st.timeouts, st.reconnectTimer)
                  ELSE st.timeouts,
     reconnectTimer |-> 0,
     reconnectAttempts |-> 0]

connectMarketStream(st, symbols) ==
    Only({ IF unique = <<>> THEN st
           ELSE IF sameStream(st, unique) THEN st
           ELSE openStream(st, unique) : unique \in {UniqueSymbols(symbols, <<>>)} })

\* the number of closes after which no reconnect is scheduled
MaxReconnects == 5

\* Math.min(1000 * 2 ** reconnectAttempts, 15000)
reconnectDelay(attempts) ==
    IF 1000 * (2 ^ attempts) < 15000 THEN 1000 * (2 ^ attempts) ELSE 15000

\* ws.onclose, but for set({ marketConnected: false }): a reconnect is scheduled
\* while fewer than 5 closes were counted
onclose(st) ==
    IF st.reconnectAttempts < MaxReconnects
    THEN [st EXCEPT !.reconnectAttempts = st.reconnectAttempts + 1,
                    !.timeouts = Append(st.timeouts,
                                        [delay |-> reconnectDelay(st.reconnectAttempts),
                                         status |-> "pending"]),
                    !.reconnectTimer = Len(st.timeouts) + 1]
    ELSE st

\* the callback of the reconnect timer
ontimeout(st) ==
    IF st.marketSymbols # <<>> THEN connectMarketStream(st, st.marketSymbols) ELSE st

\* the effect of the dashboard on its stream symbols: connectMarketStream(streamSymbols)
ConnectMarketStream ==
    /\ Len(webSockets) < MaxSockets
    /\ \E symbols \in StreamSymbolInputs : \E st \in {connectMarketStream(MarketState, symbols)} :
           /\ marketSocket' = st.marketSocket
           /\ marketSymbols' = st.marketSymbols
           /\ reconnectTimer' = st.reconnectTimer
           /\ reconnectAttempts' = st.reconnectAttempts
           /\ webSockets' = st.webSockets
           /\ timeouts' = st.timeouts
    /\ UNCHANGED marketConnected
    /\ UNCHANGED <<codecVars, importVars, navStoreVars, navSeriesVars, nettingVars, descriptionVars, operationVars, chartVars, fileVars, snapshotVars, keyboardVars>>

\* the open event of a connecting socket: ws.onopen
SocketOpens ==
    /\ \E ws \in 1..Len(webSockets) :
           /\ webSockets[ws].readyState = "CONNECTING"
           /\ webSockets' = [webSockets EXCEPT ![ws].readyState = "OPEN"]
    /\ marketConnected' = TRUE
    /\ UNCHANGED <<marketSocket, marketSymbols, reconnectTimer, reconnectAttempts, timeouts>>
    /\ UNCHANGED <<codecVars, importVars, navStoreVars, navSeriesVars, nettingVars, descriptionVars, operationVars, chartVars, fileVars, snapshotVars, keyboardVars>>

\* the close event of a socket, closed by the server or after ws.close(): ws.onclose
SocketCloses ==
    /\ \E ws \in 1..Len(webSockets) :
           /\ webSockets[ws].readyState # "CLOSED"
           /\ \E st \in {onclose([MarketState EXCEPT !.webSockets[ws].readyState = "CLOSED"])} :
                  /\ reconnectTimer' = st.reconnectTimer
                  /\ reconnectAttempts' = st.reconnectAttempts
                  /\ webSockets' = st.webSockets
                  /\ timeouts' = st.timeouts
    /\ marketConnected' = FALSE
    /\ UNCHANGED <<marketSocket, marketSymbols>>
    /\ UNCHANGED <<codecVars, importVars, navStoreVars, navSeriesVars, nettingVars, descriptionVars, operationVars, chartVars, fileVars, snapshotVars, keyboardVars>>

\* the connection of a socket fails: its error event, ws.onerror, then its
\* close event, ws.onclose
SocketFails ==
    /\ \E ws \in 1..Len(webSockets) :
           /\ webSockets[ws].readyState \in {"CONNECTING", "OPEN"}
           /\ \E st \in {onclose([MarketState EXCEPT !.webSockets[ws].readyState = "CLOSED"])} :
                  /\ reconnectTimer' = st.reconnectTimer
                  /\ reconnectAttempts' = st.reconnectAttempts
                  /\ webSockets' = st.webSockets
                  /\ timeouts' = st.timeouts
    /\ marketConnected' = FALSE
    /\ UNCHANGED <<marketSocket, marketSymbols>>
    /\ UNCHANGED <<codecVars, importVars, navStoreVars, navSeriesVars, nettingVars, descriptionVars, operationVars, chartVars, fileVars, snapshotVars, keyboardVars>>

\* a pending reconnect timer fires
ReconnectTimerFires ==
    /\ Len(webSockets) < MaxSockets
    /\ \E id \in 1..Len(timeouts) :
           /\ timeouts[id].status = "pending"
           /\ \E st \in {ontimeout([MarketState EXCEPT !.timeouts[id].status = "fired"])} :
                  /\ marketSocket' = st.marketSocket
                  /\ marketSymbols' = st.marketSymbols
                  /\ reconnectTimer' = st.reconnectTimer
                  /\ reconnectAttempts' = st.reconnectAttempts
                  /\ webSockets' = st.webSockets
                  /\ timeouts' = st.timeouts
    /\ UNCHANGED marketConnected
    /\ UNCHANGED <<codecVars, importVars, navStoreVars, navSeriesVars, nettingVars, descriptionVars, operationVars, chartVars, fileVars, snapshotVars, keyboardVars>>

MarketNext ==
    ConnectMarketStream \/ SocketOpens \/ SocketCloses \/ SocketFails \/ ReconnectTimerFires

(***************************************************************************)
(* fetchSnapshot: the snapshot of the selected account                     *)
(***************************************************************************)
\* the most snapshot requests made
MaxSnapshotRequests == 3

\* the options of the account select
AccountOptions == {"ALL", "IRA", "ROTH"}

\* snapshot: null
NoSnapshot == [url |-> "", request |-> 0]

\* the request of fetchSnapshot for the account of the store at the call:
\* `/portfolio/snapshot${qs}`
fetchSnapshot(account) ==
    [url |-> "/portfolio/snapshot"
                 \o (IF account # "" /\ account # "ALL" THEN "?account=" \o account ELSE ""),
     status |-> "pending"]

\* the user selects another account: setAccount, then the effect on accountId
\* runs fetchSnapshot and restarts the polling
SetAccount ==
    /\ Len(snapshotRequests) < MaxSnapshotRequests
    /\ \E account \in AccountOptions \ {accountId} :
           /\ accountId' = account
           /\ snapshotRequests' = Append(snapshotRequests, fetchSnapshot(account))
    /\ UNCHANGED snapshot
    /\ UNCHANGED <<csvFile, csvHandled, csvError, requests>>
    /\ UNCHANGED <<codecVars, navStoreVars, navSeriesVars, nettingVars, descriptionVars, operationVars, chartVars, fileVars, marketVars, keyboardVars>>

\* the polling of the snapshot, every 20 seconds and when the dashboard is shown
PollSnapshot ==
    /\ Len(snapshotRequests) < MaxSnapshotRequests
    /\ snapshotRequests' = Append(snapshotRequests, fetchSnapshot(accountId))
    /\ UNCHANGED snapshot
    /\ UNCHANGED <<codecVars, importVars, navStoreVars, navSeriesVars, nettingVars, descriptionVars, operationVars, chartVars, fileVars, marketVars, keyboardVars>>

\* the server answers a request: set({ snapshot: snapRes.data, error: "" })
SnapshotArrives ==
    /\ \E i \in 1..Len(snapshotRequests) :
           /\ snapshotRequests[i].status = "pending"
           /\ snapshotRequests' = [snapshotRequests EXCEPT ![i].status = "done"]
           /\ snapshot' = [url |-> snapshotRequests[i].url, request |-> i]
    /\ UNCHANGED <<codecVars, importVars, navStoreVars, navSeriesVars, nettingVars, descriptionVars, operationVars, chartVars, fileVars, marketVars, keyboardVars>>

\* a request fails: the catch block sets the error and leaves the snapshot
SnapshotFails ==
    /\ \E i \in 1..Len(snapshotRequests) :
           /\ snapshotRequests[i].status = "pending"
           /\ snapshotRequests' = [snapshotRequests EXCEPT ![i].status = "failed"]
    /\ UNCHANGED snapshot
    /\ UNCHANGED <<codecVars, importVars, navStoreVars, navSeriesVars, nettingVars, descriptionVars, operationVars, chartVars, fileVars, marketVars, keyboardVars>>

SnapshotNext == SetAccount \/ PollSnapshot \/ SnapshotArrives \/ SnapshotFails

(***************************************************************************)
(* The tabs, the hotkeys and the selected row of the positions table       *)
(***************************************************************************)
\* the most rows of a snapshot when the selection is followed
MaxSelectionRows == 2

\* the snapshots followed: option rows, each alone or a leg of the strategy s1
SelectionLists(maxRows) ==
    {rows \in PositionLists(maxRows) :
         \A i \in 1..Len(rows) :
             /\ rows[i].asset_class = "OPTION" /\ rows[i].qty # Num(0)
             /\ rows[i].strategy_id = "s1" \/ rows[i].strategy = ""}

\* the tab buttons shown
tabs(static) ==
    IF static THEN <<"Monitor", "Analyze", "Activity", "Admin">>
    ELSE <<"Monitor", "Trade", "Analyze", "Risk", "Activity", "Admin">>

\* event.key.toLowerCase() of the keys pressed outside the input fields
KeyInputs == {"arrowup", "arrowdown", "m", "t", "a", "r", "y", "d", "x"}

\* the tab after the hotkey lines of the keydown handler
hotkeyTab(key, current, static) ==
    IF key = "m" THEN "Monitor"
    ELSE IF key = "t" /\ ~static THEN "Trade"
    ELSE IF key = "a" THEN "Analyze"
    ELSE IF key = "r" THEN "Risk"
    ELSE IF key = "y" THEN "Activity"
    ELSE IF key = "d" THEN "Admin"
    ELSE current

\* const max = positionsDisplay.length - 1;
\* const next = key === "arrowdown" ? Math.min(prev + 1, max) : Math.max(prev - 1, 0);
arrowIndex(key, prev, length) ==
    IF key = "arrowdown"
    THEN (IF prev + 1 < length - 1 THEN prev + 1 ELSE length - 1)
    ELSE (IF prev - 1 > 0 THEN prev - 1 ELSE 0)

\* the selected row after an arrow key: it moves on the Monitor tab when the
\* positions table is the active table
arrowSelection(key, prev, length, current, table) ==
    IF key \in {"arrowup", "arrowdown"} /\ current = "Monitor" /\ table = "positions"
    THEN arrowIndex(key, prev, length)
    ELSE prev

\* the effect on [positionsDisplay, selectedPosIndex]:
\* if (selectedPosIndex >= positionsDisplay.length) setSelectedPosIndex(0)
selectionEffect(index, length) == IF index >= length THEN 0 ELSE index

\* a key is pressed outside the input fields: the keydown handler, then the
\* effect on the selected row
PressKey ==
    /\ \E key \in KeyInputs :
           /\ tab' = hotkeyTab(key, tab, staticMode)
           /\ selectedPosIndex' =
                  selectionEffect(arrowSelection(key, selectedPosIndex, Len(displayed),
                                                 tab, activeTable),
                                  Len(displayed))
    /\ UNCHANGED <<staticMode, activeTable>>
    /\ UNCHANGED <<codecVars, importVars, navStoreVars, navSeriesVars, nettingVars, descriptionVars, operationVars, chartVars, fileVars, marketVars, snapshotVars>>

\* a click on one of the tab buttons
ClickTab ==
    /\ \E k \in 1..Len(tabs(staticMode)) : tab' = tabs(staticMode)[k]
    /\ UNCHANGED <<staticMode, activeTable, selectedPosIndex>>
    /\ UNCHANGED <<codecVars, importVars, navStoreVars, navSeriesVars, nettingVars, descriptionVars, operationVars, chartVars, fileVars, marketVars, snapshotVars>>

\* openTrade, from the New Order button, the Trade entry of the context menu
\* or prefillOrderTrade
OpenTrade ==
    /\ tab' = IF staticMode THEN tab ELSE "Trade"
    /\ UNCHANGED <<staticMode, activeTable, selectedPosIndex>>
    /\ UNCHANGED <<codecVars, importVars, navStoreVars, navSeriesVars, nettingVars, descriptionVars, operationVars, chartVars, fileVars, marketVars, snapshotVars>>

\* the Chart entry of the context menu
ChartFromContextMenu ==
    /\ tab' = "Monitor"
    /\ UNCHANGED <<staticMode, activeTable, selectedPosIndex>>
    /\ UNCHANGED <<codecVars, importVars, navStoreVars, navSeriesVars, nettingVars, descriptionVars, operationVars, chartVars, fileVars, marketVars, snapshotVars>>

\* resetLayout: no strategy is collapsed and the Monitor tab is shown
ResetLayout ==
    /\ tab' = "Monitor"
    /\ collapsedStrategies' = {}
    /\ displayed' = positionsDisplay(positions, strategyFilter, {})
    /\ selectedPosIndex' = selectionEffect(selectedPosIndex, Len(displayed'))
    /\ UNCHANGED <<staticMode, activeTable, positions, strategyFilter>>
    /\ UNCHANGED <<codecVars, importVars, navStoreVars, navSeriesVars, descriptionVars, operationVars, chartVars, fileVars, marketVars, snapshotVars>>

\* a click, or a right click, on a row of the positions table of the Monitor tab
ClickPositionRow ==
    /\ tab = "Monitor"
    /\ \E idx \in 0..(Len(displayed) - 1) : selectedPosIndex' = idx
    /\ activeTable' = "positions"
    /\ UNCHANGED <<staticMode, tab>>
    /\ UNCHANGED <<codecVars, importVars, navStoreVars, navSeriesVars, nettingVars, descriptionVars, operationVars, chartVars, fileVars, marketVars, snapshotVars>>

\* a click on a row of the watchlist
ClickWatchlistRow ==
    /\ tab = "Monitor"
    /\ activeTable' = "watchlist"
    /\ UNCHANGED <<staticMode, tab, selectedPosIndex>>
    /\ UNCHANGED <<codecVars, importVars, navStoreVars, navSeriesVars, nettingVars, descriptionVars, operationVars, chartVars, fileVars, marketVars, snapshotVars>>

\* the legs of a strategy are hidden or shown from its summary row
CollapseStrategy ==
    /\ \E i \in 1..Len(displayed) :
           /\ displayed[i].isStrategySummary
           /\ collapsedStrategies' =
                  IF displayed[i].strategy_id \in collapsedStrategies
                  THEN collapsedStrategies \ {displayed[i].strategy_id}
                  ELSE collapsedStrategies \cup {displayed[i].strategy_id}
    /\ displayed' = positionsDisplay(positions, strategyFilter, collapsedStrategies')
    /\ selectedPosIndex' = selectionEffect(selectedPosIndex, Len(displayed'))
    /\ UNCHANGED <<staticMode, tab, activeTable, positions, strategyFilter>>
    /\ UNCHANGED <<codecVars, importVars, navStoreVars, navSeriesVars, descriptionVars, operationVars, chartVars, fileVars, marketVars, snapshotVars>>

\* a snapshot with other positions arrives: positionsDisplay is computed again
PositionsChange ==
    /\ \E rows \in SelectionLists(MaxSelectionRows) :
           /\ rows # positions
           /\ positions' = rows
           /\ displayed' = positionsDisplay(rows, strategyFilter, collapsedStrategies)
    /\ selectedPosIndex' = selectionEffect(selectedPosIndex, Len(displayed'))
    /\ UNCHANGED <<staticMode, tab, activeTable, strategyFilter, collapsedStrategies>>
    /\ UNCHANGED <<codecVars, importVars, navStoreVars, navSeriesVars, descriptionVars, operationVars, chartVars, fileVars, marketVars, snapshotVars>>

KeyboardNext ==
    \/ PressKey \/ ClickTab \/ OpenTrade \/ ChartFromContextMenu \/ ResetLayout
    \/ ClickPositionRow \/ ClickWatchlistRow \/ CollapseStrategy \/ PositionsChange

(***************************************************************************)
(* Specifications, one for each component                                  *)
(***************************************************************************)
\* a codec call is about to be made: the arguments of buildOsiSymbol, or the
\* symbol (typed, or read from a file) handed to parseOsiSymbol
CodecInit ==
    /\ \/ /\ osiOp = "args"
          /\ osiArgs \in [underlying : UnderlyingInputs, expiry : ExpiryInputs,
                          right : RightInputs, strike : StrikeInputs]
          /\ osiSymbol = ""
          /\ osiParsed = NoMatch
       \/ /\ osiOp = "symbol"
          /\ osiArgs = NoArgs
          /\ osiSymbol \in {l \o u \o d \o r \o k \o t :
                               l \in Pads, u \in SymbolRoots, d \in SymbolDates,
                               r \in SymbolRights, k \in SymbolStrikes, t \in Pads}
          /\ osiParsed = NoMatch
    /\ accountId = "ALL"
    /\ csvFile = <<>>
    /\ csvHandled = "none"
    /\ csvError = ""
    /\ requests = <<>>
    /\ navSnapshots = [k \in Accounts \X Dates |-> NoRow]
    /\ navOp = NoNavOp
    /\ benchMap = [d \in Dates |-> None]
    /\ navSeries = NoSeries
    /\ positions = <<>>
    /\ strategyFilter = ""
    /\ collapsedStrategies = {}
    /\ displayed = <<>>
    /\ descInput = NoDescriptionInput
    /\ descParsed = NotParsed
    /\ navRebuildRunning = FALSE
    /\ navLimit = NAV_LIMITS["MAX"]
    /\ navFetches = <<>>
    /\ chartProps = NoChartProps
    /\ chartLines = NoChartLines
    /\ fileText = ""
    /\ marketSocket = 0
    /\ marketSymbols = <<>>
    /\ reconnectTimer = 0
    /\ reconnectAttempts = 0
    /\ marketConnected = FALSE
    /\ webSockets = <<>>
    /\ timeouts = <<>>
    /\ snapshot = NoSnapshot
    /\ snapshotRequests = <<>>
    /\ staticMode = TRUE
    /\ tab = "Monitor"
    /\ activeTable = "null"
    /\ selectedPosIndex = 0

ImportInit ==
    /\ accountId \in AccountInputs
    /\ csvFile \in CsvFileInputs(MaxCsvRows)
    /\ csvHandled = "none"
    /\ csvError = ""
    /\ requests = <<>>
    /\ osiOp = "none"
    /\ osiArgs = NoArgs
    /\ osiSymbol = ""
    /\ osiParsed = NoMatch
    /\ navSnapshots = [k \in Accounts \X Dates |-> NoRow]
    /\ navOp = NoNavOp
    /\ benchMap = [d \in Dates |-> None]
    /\ navSeries = NoSeries
    /\ positions = <<>>
    /\ strategyFilter = ""
    /\ collapsedStrategies = {}
    /\ displayed = <<>>
    /\ descInput = NoDescriptionInput
    /\ descParsed = NotParsed
    /\ navRebuildRunning = FALSE
    /\ navLimit = NAV_LIMITS["MAX"]
    /\ navFetches = <<>>
    /\ chartProps = NoChartProps
    /\ chartLines = NoChartLines
    /\ fileText = ""
    /\ marketSocket = 0
    /\ marketSymbols = <<>>
    /\ reconnectTimer = 0
    /\ reconnectAttempts = 0
    /\ marketConnected = FALSE
    /\ webSockets = <<>>
    /\ timeouts = <<>>
    /\ snapshot = NoSnapshot
    /\ snapshotRequests = <<>>
    /\ staticMode = TRUE
    /\ tab = "Monitor"
    /\ activeTable = "null"
    /\ selectedPosIndex = 0

\* a positions-bearing file is chosen for import
PositionsFileInit ==
    /\ accountId \in AccountInputs
    /\ csvFile \in PositionsFileInputs(MaxDataRows)
    /\ csvHandled = "none"
    /\ csvError = ""
    /\ requests = <<>>
    /\ osiOp = "none"
    /\ osiArgs = NoArgs
    /\ osiSymbol = ""
    /\ osiParsed = NoMatch
    /\ navSnapshots = [k \in Accounts \X Dates |-> NoRow]
    /\ navOp = NoNavOp
    /\ benchMap = [d \in Dates |-> None]
    /\ navSeries = NoSeries
    /\ positions = <<>>
    /\ strategyFilter = ""
    /\ collapsedStrategies = {}
    /\ displayed = <<>>
    /\ descInput = NoDescriptionInput
    /\ descParsed = NotParsed
    /\ navRebuildRunning = FALSE
    /\ navLimit = NAV_LIMITS["MAX"]
    /\ navFetches = <<>>
    /\ chartProps = NoChartProps
    /\ chartLines = NoChartLines
    /\ fileText = ""
    /\ marketSocket = 0
    /\ marketSymbols = <<>>
    /\ reconnectTimer = 0
    /\ reconnectAttempts = 0
    /\ marketConnected = FALSE
    /\ webSockets = <<>>
    /\ timeouts = <<>>
    /\ snapshot = NoSnapshot
    /\ snapshotRequests = <<>>
    /\ staticMode = TRUE
    /\ tab = "Monitor"
    /\ activeTable = "null"
    /\ selectedPosIndex = 0

\* a file with option rows is chosen for import
OptionFileInit ==
    /\ accountId \in AccountInputs
    /\ csvFile \in OptionFileInputs(MaxOptionRows)
    /\ csvHandled = "none"
    /\ csvError = ""
    /\ requests = <<>>
    /\ osiOp = "none"
    /\ osiArgs = NoArgs
    /\ osiSymbol = ""
    /\ osiParsed = NoMatch
    /\ navSnapshots = [k \in Accounts \X Dates |-> NoRow]
    /\ navOp = NoNavOp
    /\ benchMap = [d \in Dates |-> None]
    /\ navSeries = NoSeries
    /\ positions = <<>>
    /\ strategyFilter = ""
    /\ collapsedStrategies = {}
    /\ displayed = <<>>
    /\ descInput = NoDescriptionInput
    /\ descParsed = NotParsed
    /\ navRebuildRunning = FALSE
    /\ navLimit = NAV_LIMITS["MAX"]
    /\ navFetches = <<>>
    /\ chartProps = NoChartProps
    /\ chartLines = NoChartLines
    /\ fileText = ""
    /\ marketSocket = 0
    /\ marketSymbols = <<>>
    /\ reconnectTimer = 0
    /\ reconnectAttempts = 0
    /\ marketConnected = FALSE
    /\ webSockets = <<>>
    /\ timeouts = <<>>
    /\ snapshot = NoSnapshot
    /\ snapshotRequests = <<>>
    /\ staticMode = TRUE
    /\ tab = "Monitor"
    /\ activeTable = "null"
    /\ selectedPosIndex = 0

\* a description is about to be parsed
DescriptionInit ==
    /\ navSnapshots = [k \in Accounts \X Dates |-> NoRow]
    /\ navOp = NoNavOp
    /\ osiOp = "none"
    /\ osiArgs = NoArgs
    /\ osiSymbol = ""
    /\ osiParsed = NoMatch
    /\ accountId = "ALL"
    /\ csvFile = <<>>
    /\ csvHandled = "none"
    /\ csvError = ""
    /\ requests = <<>>
    /\ benchMap = [d \in Dates |-> None]
    /\ navSeries = NoSeries
    /\ positions = <<>>
    /\ strategyFilter = ""
    /\ collapsedStrategies = {}
    /\ displayed = <<>>
    /\ descInput \in [parts : DescriptionParts, fallback : FallbackInputs]
    /\ descParsed = NotParsed
    /\ navRebuildRunning = FALSE
    /\ navLimit = NAV_LIMITS["MAX"]
    /\ navFetches = <<>>
    /\ chartProps = NoChartProps
    /\ chartLines = NoChartLines
    /\ fileText = ""
    /\ marketSocket = 0
    /\ marketSymbols = <<>>
    /\ reconnectTimer = 0
    /\ reconnectAttempts = 0
    /\ marketConnected = FALSE
    /\ webSockets = <<>>
    /\ timeouts = <<>>
    /\ snapshot = NoSnapshot
    /\ snapshotRequests = <<>>
    /\ staticMode = TRUE
    /\ tab = "Monitor"
    /\ activeTable = "null"
    /\ selectedPosIndex = 0

\* an empty table
NavStoreInit ==
    /\ navSnapshots = [k \in Accounts \X Dates |-> NoRow]
    /\ navOp = NoNavOp
    /\ osiOp = "none"
    /\ osiArgs = NoArgs
    /\ osiSymbol = ""
    /\ osiParsed = NoMatch
    /\ accountId = "ALL"
    /\ csvFile = <<>>
    /\ csvHandled = "none"
    /\ csvError = ""
    /\ requests = <<>>
    /\ benchMap = [d \in Dates |-> None]
    /\ navSeries = NoSeries
    /\ positions = <<>>
    /\ strategyFilter = ""
    /\ collapsedStrategies = {}
    /\ displayed = <<>>
    /\ descInput = NoDescriptionInput
    /\ descParsed = NotParsed
    /\ navRebuildRunning = FALSE
    /\ navLimit = NAV_LIMITS["MAX"]
    /\ navFetches = <<>>
    /\ chartProps = NoChartProps
    /\ chartLines = NoChartLines
    /\ fileText = ""
    /\ marketSocket = 0
    /\ marketSymbols = <<>>
    /\ reconnectTimer = 0
    /\ reconnectAttempts = 0
    /\ marketConnected = FALSE
    /\ webSockets = <<>>
    /\ timeouts = <<>>
    /\ snapshot = NoSnapshot
    /\ snapshotRequests = <<>>
    /\ staticMode = TRUE
    /\ tab = "Monitor"
    /\ activeTable = "null"
    /\ selectedPosIndex = 0

\* a table with the history of one account, and a price cache
NavSeriesInit ==
    /\ \E rows \in [Dates -> StoredRows] :
           navSnapshots = [k \in Accounts \X Dates |->
                              IF k[1] = "IRA" THEN rows[k[2]] ELSE NoRow]
    /\ navOp = NoNavOp
    /\ benchMap \in [Dates -> CacheInputs]
    /\ navSeries = NoSeries
    /\ osiOp = "none"
    /\ osiArgs = NoArgs
    /\ osiSymbol = ""
    /\ osiParsed = NoMatch
    /\ accountId = "ALL"
    /\ csvFile = <<>>
    /\ csvHandled = "none"
    /\ csvError = ""
    /\ requests = <<>>
    /\ positions = <<>>
    /\ strategyFilter = ""
    /\ collapsedStrategies = {}
    /\ displayed = <<>>
    /\ descInput = NoDescriptionInput
    /\ descParsed = NotParsed
    /\ navRebuildRunning = FALSE
    /\ navLimit = NAV_LIMITS["MAX"]
    /\ navFetches = <<>>
    /\ chartProps = NoChartProps
    /\ chartLines = NoChartLines
    /\ fileText = ""
    /\ marketSocket = 0
    /\ marketSymbols = <<>>
    /\ reconnectTimer = 0
    /\ reconnectAttempts = 0
    /\ marketConnected = FALSE
    /\ webSockets = <<>>
    /\ timeouts = <<>>
    /\ snapshot = NoSnapshot
    /\ snapshotRequests = <<>>
    /\ staticMode = TRUE
    /\ tab = "Monitor"
    /\ activeTable = "null"
    /\ selectedPosIndex = 0

NettingInit ==
    /\ positions \in PositionLists(MaxPositions)
    /\ strategyFilter = ""
    /\ collapsedStrategies = {}
    /\ displayed = positionsDisplay(positions, "", {})
    /\ osiOp = "none"
    /\ osiArgs = NoArgs
    /\ osiSymbol = ""
    /\ osiParsed = NoMatch
    /\ accountId = "ALL"
    /\ csvFile = <<>>
    /\ csvHandled = "none"
    /\ csvError = ""
    /\ requests = <<>>
    /\ navSnapshots = [k \in Accounts \X Dates |-> NoRow]
    /\ navOp = NoNavOp
    /\ benchMap = [d \in Dates |-> None]
    /\ navSeries = NoSeries
    /\ descInput = NoDescriptionInput
    /\ descParsed = NotParsed
    /\ navRebuildRunning = FALSE
    /\ navLimit = NAV_LIMITS["MAX"]
    /\ navFetches = <<>>
    /\ chartProps = NoChartProps
    /\ chartLines = NoChartLines
    /\ fileText = ""
    /\ marketSocket = 0
    /\ marketSymbols = <<>>
    /\ reconnectTimer = 0
    /\ reconnectAttempts = 0
    /\ marketConnected = FALSE
    /\ webSockets = <<>>
    /\ timeouts = <<>>
    /\ snapshot = NoSnapshot
    /\ snapshotRequests = <<>>
    /\ staticMode = TRUE
    /\ tab = "Monitor"
    /\ activeTable = "null"
    /\ selectedPosIndex = 0

\* the dashboard with an account selection and a timeframe, nothing sent yet
OperationsInit ==
    /\ accountId \in AccountInputs
    /\ csvFile = <<>>
    /\ csvHandled = "none"
    /\ csvError = ""
    /\ requests = <<>>
    /\ navRebuildRunning = FALSE
    /\ navLimit \in {NAV_LIMITS["1M"], NAV_LIMITS["MAX"]}
    /\ navFetches = <<>>
    /\ osiOp = "none"
    /\ osiArgs = NoArgs
    /\ osiSymbol = ""
    /\ osiParsed = NoMatch
    /\ navSnapshots = [k \in Accounts \X Dates |-> NoRow]
    /\ navOp = NoNavOp
    /\ benchMap = [d \in Dates |-> None]
    /\ navSeries = NoSeries
    /\ positions = <<>>
    /\ strategyFilter = ""
    /\ collapsedStrategies = {}
    /\ displayed = <<>>
    /\ descInput = NoDescriptionInput
    /\ descParsed = NotParsed
    /\ chartProps = NoChartProps
    /\ chartLines = NoChartLines
    /\ fileText = ""
    /\ marketSocket = 0
    /\ marketSymbols = <<>>
    /\ reconnectTimer = 0
    /\ reconnectAttempts = 0
    /\ marketConnected = FALSE
    /\ webSockets = <<>>
    /\ timeouts = <<>>
    /\ snapshot = NoSnapshot
    /\ snapshotRequests = <<>>
    /\ staticMode = TRUE
    /\ tab = "Monitor"
    /\ activeTable = "null"
    /\ selectedPosIndex = 0

\* a NAV series and the benchmark switch, before the chart is mounted
ChartInit ==
    /\ chartProps \in [data : ChartDataInputs(MaxChartPoints), showBench : BOOLEAN]
    /\ chartLines = NoChartLines
    /\ accountId = "ALL"
    /\ csvFile = <<>>
    /\ csvHandled = "none"
    /\ csvError = ""
    /\ requests = <<>>
    /\ navRebuildRunning = FALSE
    /\ navLimit = NAV_LIMITS["MAX"]
    /\ navFetches = <<>>
    /\ osiOp = "none"
    /\ osiArgs = NoArgs
    /\ osiSymbol = ""
    /\ osiParsed = NoMatch
    /\ navSnapshots = [k \in Accounts \X Dates |-> NoRow]
    /\ navOp = NoNavOp
    /\ benchMap = [d \in Dates |-> None]
    /\ navSeries = NoSeries
    /\ positions = <<>>
    /\ strategyFilter = ""
    /\ collapsedStrategies = {}
    /\ displayed = <<>>
    /\ descInput = NoDescriptionInput
    /\ descParsed = NotParsed
    /\ fileText = ""
    /\ marketSocket = 0
    /\ marketSymbols = <<>>
    /\ reconnectTimer = 0
    /\ reconnectAttempts = 0
    /\ marketConnected = FALSE
    /\ webSockets = <<>>
    /\ timeouts = <<>>
    /\ snapshot = NoSnapshot
    /\ snapshotRequests = <<>>
    /\ staticMode = TRUE
    /\ tab = "Monitor"
    /\ activeTable = "null"
    /\ selectedPosIndex = 0

\* the text of an account statement is about to be imported
FileTextInit ==
    /\ fileText \in StatementTextInputs(MaxStatementLines)
    /\ accountId \in AccountInputs
    /\ csvFile = <<>>
    /\ csvHandled = "none"
    /\ csvError = ""
    /\ requests = <<>>
    /\ navRebuildRunning = FALSE
    /\ navLimit = NAV_LIMITS["MAX"]
    /\ navFetches = <<>>
    /\ osiOp = "none"
    /\ osiArgs = NoArgs
    /\ osiSymbol = ""
    /\ osiParsed = NoMatch
    /\ navSnapshots = [k \in Accounts \X Dates |-> NoRow]
    /\ navOp = NoNavOp
    /\ benchMap = [d \in Dates |-> None]
    /\ navSeries = NoSeries
    /\ positions = <<>>
    /\ strategyFilter = ""
    /\ collapsedStrategies = {}
    /\ displayed = <<>>
    /\ descInput = NoDescriptionInput
    /\ descParsed = NotParsed
    /\ chartProps = NoChartProps
    /\ chartLines = NoChartLines
    /\ marketSocket = 0
    /\ marketSymbols = <<>>
    /\ reconnectTimer = 0
    /\ reconnectAttempts = 0
    /\ marketConnected = FALSE
    /\ webSockets = <<>>
    /\ timeouts = <<>>
    /\ snapshot = NoSnapshot
    /\ snapshotRequests = <<>>
    /\ staticMode = TRUE
    /\ tab = "Monitor"
    /\ activeTable = "null"
    /\ selectedPosIndex = 0

\* the store before any call of connectMarketStream
MarketInit ==
    /\ accountId = "ALL"
    /\ csvFile = <<>>
    /\ csvHandled = "none"
    /\ csvError = ""
    /\ requests = <<>>
    /\ navRebuildRunning = FALSE
    /\ navLimit = NAV_LIMITS["MAX"]
    /\ navFetches = <<>>
    /\ osiOp = "none"
    /\ osiArgs = NoArgs
    /\ osiSymbol = ""
    /\ osiParsed = NoMatch
    /\ navSnapshots = [k \in Accounts \X Dates |-> NoRow]
    /\ navOp = NoNavOp
    /\ benchMap = [d \in Dates |-> None]
    /\ navSeries = NoSeries
    /\ positions = <<>>
    /\ strategyFilter = ""
    /\ collapsedStrategies = {}
    /\ displayed = <<>>
    /\ descInput = NoDescriptionInput
    /\ descParsed = NotParsed
    /\ fileText = ""
    /\ marketSocket = 0
    /\ marketSymbols = <<>>
    /\ reconnectTimer = 0
    /\ reconnectAttempts = 0
    /\ marketConnected = FALSE
    /\ webSockets = <<>>
    /\ timeouts = <<>>
    /\ chartProps = NoChartProps
    /\ chartLines = NoChartLines
    /\ snapshot = NoSnapshot
    /\ snapshotRequests = <<>>
    /\ staticMode = TRUE
    /\ tab = "Monitor"
    /\ activeTable = "null"
    /\ selectedPosIndex = 0

\* the dashboard with an account selected, before its first snapshot request
SnapshotInit ==
    /\ accountId \in AccountOptions
    /\ csvFile = <<>>
    /\ csvHandled = "none"
    /\ csvError = ""
    /\ requests = <<>>
    /\ navRebuildRunning = FALSE
    /\ navLimit = NAV_LIMITS["MAX"]
    /\ navFetches = <<>>
    /\ osiOp = "none"
    /\ osiArgs = NoArgs
    /\ osiSymbol = ""
    /\ osiParsed = NoMatch
    /\ navSnapshots = [k \in Accounts \X Dates |-> NoRow]
    /\ navOp = NoNavOp
    /\ benchMap = [d \in Dates |-> None]
    /\ navSeries = NoSeries
    /\ positions = <<>>
    /\ strategyFilter = ""
    /\ collapsedStrategies = {}
    /\ displayed = <<>>
    /\ descInput = NoDescriptionInput
    /\ descParsed = NotParsed
    /\ fileText = ""
    /\ marketSocket = 0
    /\ marketSymbols = <<>>
    /\ reconnectTimer = 0
    /\ reconnectAttempts = 0
    /\ marketConnected = FALSE
    /\ webSockets = <<>>
    /\ timeouts = <<>>
    /\ chartProps = NoChartProps
    /\ chartLines = NoChartLines
    /\ snapshot = NoSnapshot
    /\ snapshotRequests = <<>>
    /\ staticMode = TRUE
    /\ tab = "Monitor"
    /\ activeTable = "null"
    /\ selectedPosIndex = 0

\* the dashboard as it is first shown, in static mode or not, before its first
\* snapshot
KeyboardInit ==
    /\ accountId = "ALL"
    /\ csvFile = <<>>
    /\ csvHandled = "none"
    /\ csvError = ""
    /\ requests = <<>>
    /\ navRebuildRunning = FALSE
    /\ navLimit = NAV_LIMITS["MAX"]
    /\ navFetches = <<>>
    /\ osiOp = "none"
    /\ osiArgs = NoArgs
    /\ osiSymbol = ""
    /\ osiParsed = NoMatch
    /\ navSnapshots = [k \in Accounts \X Dates |-> NoRow]
    /\ navOp = NoNavOp
    /\ benchMap = [d \in Dates |-> None]
    /\ navSeries = NoSeries
    /\ positions = <<>>
    /\ strategyFilter = ""
    /\ collapsedStrategies = {}
    /\ displayed = <<>>
    /\ descInput = NoDescriptionInput
    /\ descParsed = NotParsed
    /\ fileText = ""
    /\ marketSocket = 0
    /\ marketSymbols = <<>>
    /\ reconnectTimer = 0
    /\ reconnectAttempts = 0
    /\ marketConnected = FALSE
    /\ webSockets = <<>>
    /\ timeouts = <<>>
    /\ chartProps = NoChartProps
    /\ chartLines = NoChartLines
    /\ snapshot = NoSnapshot
    /\ snapshotRequests = <<>>
    /\ staticMode \in BOOLEAN
    /\ tab = "Monitor"
    /\ activeTable = "null"
    /\ selectedPosIndex = 0

SpecCodec == CodecInit /\ [][CodecNext]_vars

SpecImport == ImportInit /\ [][ImportNext]_vars

SpecPositionsFile == PositionsFileInit /\ [][ImportNext]_vars

SpecDescription == DescriptionInit /\ [][DescriptionNext]_vars

SpecOptionFile == OptionFileInit /\ [][ImportNext]_vars

SpecOperations == OperationsInit /\ [][OperationsNext]_vars

SpecNavStore == NavStoreInit /\ [][NavStoreNext]_vars

SpecNavSeries == NavSeriesInit /\ [][NavSeriesNext]_vars

SpecNetting == NettingInit /\ [][NettingNext]_vars

SpecChart == ChartInit /\ [][ChartNext]_vars

SpecFileText == FileTextInit /\ [][FileTextNext]_vars

SpecSnapshot == SnapshotInit /\ [][SnapshotNext]_vars

SpecKeyboard == KeyboardInit /\ [][KeyboardNext]_vars

SpecMarket == MarketInit /\ [][MarketNext]_vars

\* a timer set by window.setTimeout fires unless it is cleared
SpecMarketTimers == MarketInit /\ [][MarketNext]_vars /\ WF_vars(ReconnectTimerFires)

(***************************************************************************)
(* Claims about the codec                                                  *)
(***************************************************************************)
Alnum == UpperLetters \cup LowerLetters \cup Digits

\* an ISO date: YYYY-MM-DD
IsIsoDate(e) ==
    /\ Len(e) = 10
    /\ CharAt(e, 5) = "-" /\ CharAt(e, 8) = "-"
    /\ \A i \in {1, 2, 3, 4, 6, 7, 9, 10} : CharAt(e, i) \in Digits

\* the valid tuples of the round-trip law as the specification states them
ValidTupleAsClaimed(a) ==
    /\ Len(a.underlying) \in 1..6 /\ AllIn(a.underlying, Alnum)
    /\ IsIsoDate(a.expiry)
    /\ a.right \in {"CALL", "PUT"}
    /\ a.strike.fin /\ a.strike.v > 0 /\ a.strike.v % 10 = 0

\* the tuples the fixed-width encoding carries: the right given as the one-letter
\* code, the expiry in 2000-2099, the strike below 100000
ValidTupleEncodable(a) ==
    /\ Len(a.underlying) \in 1..6 /\ AllIn(a.underlying, Alnum)
    /\ IsIsoDate(a.expiry) /\ SubSeq(a.expiry, 1, 2) = "20"
    /\ ToUpper(a.right) \in {"C", "P"}
    /\ a.strike.fin /\ a.strike.v > 0 /\ a.strike.v % 10 = 0
    /\ a.strike.v < 1000000000

\* C1 as stated: for every valid tuple (underlying of 1-6 alphanumeric characters,
\* ISO expiry, right CALL or PUT, positive strike of at most 3 decimals),
\* parseOsiSymbol(buildOsiSymbol(...)) returns exactly the original tuple.
C1_RoundTripAsClaimed ==
    (osiOp = "roundtrip" /\ ValidTupleAsClaimed(osiArgs)) =>
        /\ osiParsed.ok
        /\ osiParsed.underlying = osiArgs.underlying
        /\ osiParsed.expiry = osiArgs.expiry
        /\ osiParsed.option_type = osiArgs.right
        /\ osiParsed.strike = osiArgs.strike

\* C1 amended: for every tuple of an underlying of 1-6 alphanumeric characters, an
\* ISO expiry in the years 2000-2099, a right given as the code C or P, and a
\* positive strike of at most 3 decimals below 100000, the round trip returns the
\* upper-cased underlying, the expiry, CALL for C and PUT for P, and the strike.
C1_RoundTrip ==
    (osiOp = "roundtrip" /\ ValidTupleEncodable(osiArgs)) =>
        /\ osiParsed.ok
        /\ osiParsed.underlying = ToUpper(osiArgs.underlying)
        /\ osiParsed.expiry = osiArgs.expiry
        /\ osiParsed.option_type = (IF ToUpper(osiArgs.right) = "P" THEN "PUT" ELSE "CALL")
        /\ osiParsed.strike = osiArgs.strike

\* a put with a lower-case underlying and a fractional strike went through the round trip
C1_Witness ==
    /\ osiOp = "roundtrip"
    /\ ValidTupleEncodable(osiArgs)
    /\ osiArgs.right = "P"
    /\ osiArgs.underlying = "aapl"
    /\ osiArgs.strike = Num(1505000)
    /\ osiParsed.option_type = "PUT"

\* C2 as stated: buildOsiSymbol produces no symbol when the underlying, the expiry
\* or the right is empty, or the strike is non-finite, zero or negative.
C2_BuildRejectsInvalid ==
    (/\ osiOp = "build"
     /\ \/ osiArgs.underlying = ""
        \/ osiArgs.expiry = ""
        \/ osiArgs.right = ""
        \/ ~osiArgs.strike.fin
        \/ osiArgs.strike.v <= 0)
    => osiSymbol = ""

\* the pattern of a contract symbol, read from the end of the text: 8 strike
\* digits, before them C or P, before it 6 date digits, before them 1-6
\* upper-case letters or digits
OsiShape(t) ==
    LET n == Len(t)
    IN  /\ n \in 16..21
        /\ AllIn(SubSeq(t, n - 7, n), Digits)
        /\ CharAt(t, n - 8) \in {"C", "P"}
        /\ AllIn(SubSeq(t, n - 14, n - 9), Digits)
        /\ AllIn(SubSeq(t, 1, n - 15), UpperLetters \cup Digits)

\* what a successful parse of the text t (upper-cased) returns
ParsedAsShape(t, parsed) ==
    LET n == Len(t)
    IN  /\ parsed.underlying = SubSeq(t, 1, n - 15)
        /\ AllIn(parsed.underlying, UpperLetters \cup Digits)
        /\ parsed.option_type = (IF CharAt(t, n - 8) = "C" THEN "CALL" ELSE "PUT")
        /\ parsed.strike.fin
        /\ parsed.strike.v = 10 * DigitsToNat(SubSeq(t, n - 7, n))

\* C3 as stated: parseOsiSymbol succeeds if and only if the input, compared
\* case-insensitively, consists of 1-6 alphanumerics, 6 date digits, C or P and 8
\* strike digits; on success underlying is upper-case, right is CALL for C and
\* PUT for P, and strike is the 8-digit number divided by 1000.
C3_ParseIffPatternAsClaimed ==
    (osiOp = "parse") =>
        /\ osiParsed.ok <=> OsiShape(ToUpper(osiSymbol))
        /\ osiParsed.ok => ParsedAsShape(ToUpper(osiSymbol), osiParsed)
        /\ ~osiParsed.ok => osiParsed = NoMatch

\* C3 amended: the same, of the input with its surrounding whitespace removed.
C3_ParseIffPattern ==
    (osiOp = "parse") =>
        /\ osiParsed.ok <=> OsiShape(ToUpper(Trim(osiSymbol)))
        /\ osiParsed.ok => ParsedAsShape(ToUpper(Trim(osiSymbol)), osiParsed)
        /\ ~osiParsed.ok => osiParsed = NoMatch

\* a lower-case put symbol was parsed
C3_Witness ==
    /\ osiOp = "parse"
    /\ osiSymbol = "aapl260117p00150000"
    /\ osiParsed.ok
    /\ osiParsed.underlying = "AAPL"
    /\ osiParsed.option_type = "PUT"
    /\ osiParsed.strike = Num(1500000)

(***************************************************************************)
(* Claims about the CSV import                                             *)
(***************************************************************************)
\* the endpoint a branch of importCsvFile posts to
EndpointOf(format) ==
    IF format = "balances" THEN "/admin/import-balances"
    ELSE IF format = "positions" THEN "/admin/import-positions"
    ELSE IF format = "transactions" THEN "/admin/import-transactions"
    ELSE "/positions/bulk"

\* a file that was imported took the branch for the given format, and a request
\* it sent went to that branch's endpoint
HandledAs(format) ==
    /\ csvHandled = format
    /\ requests # <<>> => requests[Len(requests)].endpoint = EndpointOf(format)

Imported == csvHandled \notin {"none", "empty"}

\* C4 as stated: detection is attempted in the order transactions, balances,
\* account statement, positions report, generic CSV, and a file that matches
\* several detectors is handled by the first match
C4_DetectionOrderAsClaimed ==
    Imported =>
        IF isTransactionsCsv(csvFile) THEN HandledAs("transactions")
        ELSE IF isBalancesReport(csvFile) THEN HandledAs("balances")
        ELSE IF isAccountStatement(csvFile) THEN HandledAs("statement")
        ELSE IF isPositionsReport(csvFile) THEN HandledAs("positions")
        ELSE HandledAs("generic")

\* C4, amended: a file that matches several detectors is handled by the first
\* match in the order balances report, positions report, transactions, account
\* statement, generic CSV
C4_DetectionOrder ==
    Imported =>
        IF isBalancesReport(csvFile) THEN HandledAs("balances")
        ELSE IF isPositionsReport(csvFile) THEN HandledAs("positions")
        ELSE IF isTransactionsCsv(csvFile) THEN HandledAs("transactions")
        ELSE IF isAccountStatement(csvFile) THEN HandledAs("statement")
        ELSE HandledAs("generic")

\* a file with the transactions header and the balances title is imported as a
\* balances report
C4_Witness ==
    /\ csvFile # <<>>
    /\ isTransactionsCsv(csvFile) /\ isBalancesReport(csvFile)
    /\ csvHandled = "balances"
    /\ requests # <<>> /\ requests[1].endpoint = "/admin/import-balances"

\* a positions-bearing file was imported
ImportedPositions == csvHandled \in {"statement", "generic"}

\* the requests that carry positions to the reconciler
BulkRequests == {i \in 1..Len(requests) : requests[i].endpoint = "/positions/bulk"}

\* C13: no position sent to the reconciler from an account statement or a
\* generic CSV has an empty symbol, a quantity that is not a finite number or a
\* quantity of zero
C13_NoUnusableRowSent ==
    \A i \in BulkRequests : \A k \in 1..Len(requests[i].positions) :
        /\ requests[i].positions[k].symbol # ""
        /\ IsFinite(requests[i].positions[k].qty)
        /\ requests[i].positions[k].qty.v # 0

\* the data rows of the file: those after the header row, which follows the
\* title of the section in an account statement
DataRows ==
    IF csvFile = <<>> THEN <<>>
    ELSE IF Len(csvFile[1]) = 1 THEN SubSeq(csvFile, 3, Len(csvFile))
    ELSE SubSeq(csvFile, 2, Len(csvFile))

\* a data row that can be used: it has a symbol and a quantity that is a
\* finite number other than zero
UsableRow(cells) ==
    /\ RemoveWhitespace(cells[1]) # ""
    /\ IsFinite(parseNumber(cells[2]))
    /\ parseNumber(cells[2]) # Num(0)

UsableRows == SelectSeq(DataRows, UsableRow)

\* a file with rows of both kinds went out with the usable ones only
C13_Witness ==
    /\ ImportedPositions
    /\ Len(DataRows) = 2 /\ Len(UsableRows) = 1
    /\ BulkRequests # {}
    /\ \A i \in BulkRequests : Len(requests[i].positions) = 1

\* the import failed: nothing was sent and an error is shown
ImportFailed == requests = <<>> /\ csvError # ""

\* C14 as stated: the import of a positions-bearing file fails, nothing sent
\* and an error reported, if and only if no usable row remains
C14_FailsIffNoUsableRowAsClaimed ==
    ImportedPositions => (ImportFailed <=> UsableRows = <<>>)

\* the positions sent are the given rows, one for one in order
SentAll(i, rows) ==
    /\ Len(requests[i].positions) = Len(rows)
    /\ \A k \in 1..Len(rows) :
           /\ requests[i].positions[k].symbol = ToUpper(RemoveWhitespace(rows[k][1]))
           /\ Abs(requests[i].positions[k].qty.v) = Abs(parseNumber(rows[k][2]).v)

\* C14, amended: with a specific account selected, the import of a
\* positions-bearing file sends all its usable rows when there is at least one
\* and fails, nothing sent and an error reported, exactly when there is none;
\* with ALL selected it fails whatever the rows are
C14_FailsIffNoUsableRow ==
    ImportedPositions =>
        IF accountId = "ALL" THEN ImportFailed
        ELSE \A rows \in {UsableRows} :
                 /\ ImportFailed <=> rows = <<>>
                 /\ rows # <<>> =>
                        /\ requests # <<>>
                        /\ \A i \in 1..Len(requests) :
                               /\ requests[i].endpoint = "/positions/bulk"
                               /\ requests[i].account = accountId
                               /\ SentAll(i, rows)

\* a file with a bad row and a usable row was imported for a specific account
C14_Witness ==
    /\ ImportedPositions /\ accountId # "ALL"
    /\ Len(DataRows) = 2 /\ Len(UsableRows) = 1
    /\ Len(requests) = 1 /\ Len(requests[1].positions) = 1

\* the cells of a data row of an option table
SymbolCell(cells) == Trim(cells[1])
DescriptionCell(cells) == Trim(cells[2])

\* step (a): the symbol parses as a contract symbol
StepSymbol(cells) == parseOsiSymbol(ToUpper(RemoveWhitespace(SymbolCell(cells))))

\* step (c): the description, or else the raw symbol, matches the grammar of
\* option descriptions
StepDescription(cells) ==
    IF parseOptionDescription(DescriptionCell(cells), Trim(cells[5])).ok
    THEN parseOptionDescription(DescriptionCell(cells), Trim(cells[5]))
    ELSE parseOptionDescription(SymbolCell(cells), Trim(cells[5]))

\* first successful wins, in the order (a) symbol, (b) explicit columns,
\* (c) description: the identity of a row, unresolved when no step succeeds
FirstSuccessful(cells) ==
    IF StepSymbol(cells).ok
    THEN FromOsi(ToUpper(RemoveWhitespace(SymbolCell(cells))), StepSymbol(cells))
    ELSE FromColumns(Trim(cells[5]), Trim(cells[6]), Trim(cells[7]), Trim(cells[8]),
                     FromDescription(StepDescription(cells), Unresolved("", "")))

\* a position sent has the identity given
SameIdentity(position, identity) ==
    /\ position.symbol = identity.symbol
    /\ position.underlying = identity.underlying
    /\ position.expiry = identity.expiry
    /\ position.strike = identity.strike
    /\ position.option_type = identity.option_type
    /\ position.asset_class = "OPTION"

\* C15: the symbol, underlying, expiry, strike and right of a position sent are
\* those of the earliest step that succeeds among (a) the symbol parses as a
\* contract symbol, (b) the explicit columns build a symbol, (c) the
\* description or raw symbol matches the description grammar, and its
\* asset_class is OPTION whenever a step succeeds
C15_FirstSuccessfulWins ==
    ImportedPositions =>
        \A i \in BulkRequests : \A k \in 1..Len(requests[i].positions) :
            FirstSuccessful(DataRows[k]).asset_class = "OPTION"
                => SameIdentity(requests[i].positions[k], FirstSuccessful(DataRows[k]))

\* the quantity a data row is to be sent with: -|qty| when its side is SHORT or
\* SELL, +|qty| when it is LONG or BUY, and the quantity as written without a side
QtyBySide(cells) ==
    IF ToUpper(Trim(cells[4])) \in {"SHORT", "SELL"} THEN -Abs(parseNumber(cells[2]).v)
    ELSE IF ToUpper(Trim(cells[4])) \in {"LONG", "BUY"} THEN Abs(parseNumber(cells[2]).v)
    ELSE parseNumber(cells[2]).v

\* C17: a position sent by the generic CSV import has the quantity -|qty| when
\* the side of its row is SHORT or SELL and +|qty| when it is LONG or BUY,
\* whatever sign is written in the quantity field, and the quantity as written
\* when the row has no side
C17_QtySignedBySide ==
    csvHandled = "generic" =>
        \A rows \in {UsableRows} :
            \A i \in BulkRequests : \A k \in 1..Len(requests[i].positions) :
                requests[i].positions[k].qty = Num(QtyBySide(rows[k]))

\* a row written -5 with side Buy went out as +5, next to one written -5
\* without a side that went out as it is
C17_Witness ==
    /\ csvHandled = "generic" /\ Len(requests) = 1
    /\ UsableRows = << <<"AAPL", "-5", "150.5", "Buy">>, <<"MSFT", "-5", "300", "">> >>
    /\ requests[1].positions[1].qty = Num(50000)
    /\ requests[1].positions[2].qty = Num(-50000)

(***************************************************************************)
(* Claims about the handlers that change the portfolio                     *)
(***************************************************************************)
\* the endpoints of the handlers that ask requireAccount for the account
GuardedEndpoints ==
    {"/positions", "DELETE /positions/id1", "/positions/cash", "/admin/import-positions",
     "/admin/import-transactions", "/positions/bulk", "/admin/import-nav-text"}

\* with ALL selected, no handler that asks requireAccount sends a request
GuardedHandlersReject ==
    accountId = "ALL" =>
        \A i \in 1..Len(requests) : requests[i].endpoint \notin GuardedEndpoints

\* C18: while the selected account is ALL, no operation that changes the
\* portfolio sends a request: saving, removing or updating a position,
\* updating cash, an import of positions, transactions, a statement or a
\* generic CSV, the NAV-history paste, the NAV rebuild, the NAV clear and the
\* portfolio reset are all rejected.  The balances import, which the claim
\* does not list, is the one request that may be sent
C18_NoMutationUnderAll ==
    accountId = "ALL" =>
        \A i \in 1..Len(requests) : requests[i].endpoint = "/admin/import-balances"

\* C19: at no time are two requests of imports for the same account in flight
C19_OneImportInFlight ==
    \A i, j \in 1..Len(requests) :
        ~ /\ i < j
          /\ requests[i].status = "pending" /\ requests[j].status = "pending"
          /\ requests[i].endpoint \in ImportEndpoints
          /\ requests[j].endpoint \in ImportEndpoints
          /\ requests[i].account # "" /\ requests[i].account = requests[j].account

\* C20: when the request of a portfolio reset succeeds, the NAV series is
\* fetched again with the current navLimit as the limit
C20_ResetRefetchesWithLimit ==
    [][\A i \in 1..Len(requests) :
          ( /\ requests[i].endpoint = "/admin/reset"
            /\ requests[i].status = "pending"
            /\ Len(requests') = Len(requests)
            /\ requests'[i].status = "done" )
          => navFetches' = Append(navFetches, fetchNav(<<navLimit>>, accountId))]_vars

(***************************************************************************)
(* Claims about option descriptions                                        *)
(***************************************************************************)
\* the call was made
DescriptionParsed == descParsed # NotParsed

\* a description with a date and a strike and right the grammar reads
WellFormedDescription ==
    /\ descInput.parts.date \in {"01/17/2026", "17 Jan 26"}
    /\ descInput.parts.strikeRight \in {"150 CALL", "150.5P"}

\* C16: for a description [qty] UNDERLYING [qty] DATE STRIKE RIGHT the
\* underlying returned is the one written; for a description [qty] DATE STRIKE
\* RIGHT, which omits it, the underlying returned is the fallback when one is
\* given and there is no match when none is given
C16_DescriptionUnderlying ==
    DescriptionParsed /\ WellFormedDescription =>
        IF descInput.parts.underlying # ""
        THEN /\ descParsed.ok
             /\ descParsed.underlying = ToUpper(Trim(descInput.parts.underlying))
        ELSE IF descInput.fallback # ""
        THEN descParsed.ok /\ descParsed.underlying = ToUpper(descInput.fallback)
        ELSE ~descParsed.ok

(***************************************************************************)
(* Claims about the NAV store                                              *)
(***************************************************************************)
Keys == Accounts \X Dates

\* the last operation was a write of a snapshot
Wrote == navOp.op \in {"importPositions", "importBalances"}

WrittenRow == navSnapshots[navOp.account, navOp.asof]

\* C5: store_nav_snapshot stores bench as NULL when the bench supplied is absent,
\* zero or negative and stores the value supplied only when it is strictly
\* positive; no stored snapshot has a bench that is its nav or is not positive
C5_BenchNullPreserved ==
    /\ Wrote =>
          /\ WrittenRow.stored
          /\ WrittenRow.bench = IF navOp.bench.null \/ navOp.bench.v <= 0 THEN None
                                ELSE navOp.bench
    /\ \A k \in Keys :
          navSnapshots[k].stored /\ ~navSnapshots[k].bench.null =>
              /\ navSnapshots[k].bench.v > 0
              /\ navSnapshots[k].bench.v # navSnapshots[k].nav

\* a positions import without benchmark data has stored a snapshot with a NULL bench
C5_Witness ==
    /\ navOp.op = "importPositions" /\ navOp.bench = None
    /\ WrittenRow.stored /\ WrittenRow.nav = 1000 /\ WrittenRow.bench = None

\* a stored positive bench gives way to NULL
Worsened(before, after) ==
    \E k \in Keys : /\ before[k].stored /\ ~before[k].bench.null
                    /\ after[k].stored /\ after[k].bench.null

Points == navSeries.points

OutputDates == {Points[i].date : i \in 1..Len(Points)}

\* the price cache has a positive level for the date
CachePositive(d) == ~benchMap[d].null /\ benchMap[d].v > 0

\* the output dates before d with a positive cache level
EarlierCacheDates(d) == {e \in OutputDates : e < d /\ CachePositive(e)}

Latest(dates) == CHOOSE d \in dates : \A e \in dates : e <= d

StoredBench(d) == navSnapshots[navSeries.account, d].bench

NoCacheSeen(d) == \A e \in OutputDates : e <= d => ~CachePositive(e)

Shown == filteredRows(positions, strategyFilter)

IsOption(row) == ToUpper(row.asset_class) = "OPTION"

\* the places of a position among the rows displayed
PlacesOf(row) ==
    {j \in 1..Len(displayed) : /\ ~displayed[j].isStrategySummary
                               /\ displayed[j].instrument_id = row.instrument_id}

\* a position is displayed once, as it is, and no summary row has the key
OrdinaryRow(row, key) ==
    /\ Cardinality(PlacesOf(row)) = 1
    /\ \A j \in PlacesOf(row) : displayed[j] = row
    /\ \A j \in 1..Len(displayed) :
           ~(displayed[j].isStrategySummary /\ displayed[j].strategy_id = key)

\* C9 as stated, the grouping key being the strategy_id: an OPTION row that is
\* the only row carrying its strategy_id is displayed as an ordinary row and no
\* summary row exists for that key
C9_SingleLegNotSummarizedAsClaimed ==
    \A i \in 1..Len(Shown) :
        (/\ IsOption(Shown[i]) /\ Shown[i].strategy_id # ""
         /\ \A j \in 1..Len(Shown) :
                Shown[j].strategy_id = Shown[i].strategy_id => j = i)
        => OrdinaryRow(Shown[i], Shown[i].strategy_id)

\* the grouping key of a row: its strategy_id or, without one, its strategy
KeyOf(row) == IF row.strategy_id # "" THEN row.strategy_id ELSE row.strategy

\* C9, amended: an OPTION row that is the only OPTION row with its grouping key,
\* the strategy_id or without one the strategy, is displayed as an ordinary row,
\* flagged neither as summary nor as leg, and no summary row exists for that key
C9_SingleLegNotSummarized ==
    \A i \in 1..Len(Shown) :
        (/\ IsOption(Shown[i]) /\ KeyOf(Shown[i]) # ""
         /\ \A j \in 1..Len(Shown) :
                IsOption(Shown[j]) /\ KeyOf(Shown[j]) = KeyOf(Shown[i]) => j = i)
        => OrdinaryRow(Shown[i], KeyOf(Shown[i]))

\* next to a summarized strategy, the single leg of another is displayed unflagged
C9_Witness ==
    /\ \E j \in 1..Len(displayed) : displayed[j].isStrategySummary
    /\ \E j \in 1..Len(displayed) :
           /\ displayed[j].strategy_id = "s2" /\ displayed[j].asset_class = "OPTION"
           /\ ~displayed[j].isStrategySummary /\ ~displayed[j].isStrategyLeg
    /\ \A j \in 1..Len(displayed) :
           ~(displayed[j].isStrategySummary /\ displayed[j].strategy_id = "s2")

\* the sizes of the legs of a group: |quantity| of each
LegSizes(key) ==
    LET legs == SelectSeq(Shown, LAMBDA row : IsOption(row) /\ KeyOf(row) = key)
    IN  [i \in 1..Len(legs) |-> Abs(legs[i].qty.v)]

\* C10: the units of a summary row are the least |quantity| of the legs with a
\* quantity that is not zero or, when there is none, |quantity| of the first leg
\* or 1: a finite number, the least non-zero |quantity| or exactly 1
C10_UnitsOfSummary ==
    \A j \in 1..Len(displayed) :
        displayed[j].isStrategySummary =>
            LET sizes == LegSizes(displayed[j].strategy_id)
                nonzero == Range(sizes) \ {0}
            IN  /\ IsFinite(displayed[j].qty)
                /\ displayed[j].qty.v =
                       IF nonzero # {} THEN CHOOSE m \in nonzero : \A n \in nonzero : m <= n
                       ELSE IF sizes[1] # 0 THEN sizes[1]
                       ELSE 1


\* the legs of a group as the claims read them: the OPTION rows with the key
LegsOfKey(key) == SelectSeq(Shown, LAMBDA row : IsOption(row) /\ KeyOf(row) = key)

\* the least |quantity| that is not zero or, without one, 1
UnitsOfLegs(legs) ==
    IF Range([i \in 1..Len(legs) |-> Abs(legs[i].qty.v)]) \ {0} = {} THEN 1
    ELSE CHOOSE m \in Range([i \in 1..Len(legs) |-> Abs(legs[i].qty.v)]) \ {0} :
             \A i \in 1..Len(legs) : legs[i].qty.v # 0 => m <= Abs(legs[i].qty.v)

\* the sum over the legs of qty x price x multiplier, the price as written in
\* the row and a missing multiplier taken as the baseline
RECURSIVE WrittenNotional(_, _)
WrittenNotional(legs, i) ==
    IF i > Len(legs) THEN Ratio(0, 1)
    ELSE RatioPlus(RatioTimes(legs[i].price,
                              legs[i].qty.v * (IF legs[i].multiplier = 0
                                               THEN (IF legs[1].multiplier = 0 THEN 100
                                                     ELSE legs[1].multiplier)
                                               ELSE legs[i].multiplier)),
                   WrittenNotional(legs, i + 1))

\* the price of a leg that counts: its price when positive, else its average
\* cost (its price again when it has none) when positive, else 0
CountedPrice(leg) ==
    IF leg.price.n > 0 THEN leg.price
    ELSE IF leg.avg_cost # NoCost /\ leg.avg_cost.n > 0 THEN leg.avg_cost
    ELSE Ratio(0, 1)

\* the baseline multiplier: that of the first leg, 100 when it has none
Baseline(legs) == IF legs[1].multiplier = 0 THEN 100 ELSE legs[1].multiplier

\* the sum over the legs of qty x counted price x multiplier, a leg without a
\* multiplier taking the baseline
RECURSIVE CountedNotional(_, _)
CountedNotional(legs, i) ==
    IF i > Len(legs) THEN Ratio(0, 1)
    ELSE RatioPlus(RatioTimes(CountedPrice(legs[i]),
                              legs[i].qty.v * (IF legs[i].multiplier = 0 THEN Baseline(legs)
                                               ELSE legs[i].multiplier)),
                   CountedNotional(legs, i + 1))

\* price x units x baseline = notional, for a price in lowest terms
IsQuotient(price, notional, divisor) ==
    price.n * divisor * notional.d = notional.n * price.d

\* C11 as stated: the price of every summary row is the sum over its legs of
\* qty x price x multiplier, as the rows carry them, divided by units x the
\* multiplier of the first leg (100 by default)
C11_NetPriceAsClaimed ==
    \A j \in 1..Len(displayed) :
        displayed[j].isStrategySummary =>
            IsQuotient(displayed[j].price,
                       WrittenNotional(LegsOfKey(displayed[j].strategy_id), 1),
                       UnitsOfLegs(LegsOfKey(displayed[j].strategy_id))
                           * Baseline(LegsOfKey(displayed[j].strategy_id)))

\* BUY 1 @ 5 and SELL 1 @ 2, multiplier 100
IsExampleSpread(legs) ==
    /\ Len(legs) = 2
    /\ legs[1].qty = Num(1) /\ legs[1].price = Ratio(5, 1) /\ legs[1].multiplier = 100
    /\ legs[2].qty = Num(-1) /\ legs[2].price = Ratio(2, 1) /\ legs[2].multiplier = 100

\* C11, amended: the price of every summary row is the sum over its legs of
\* qty x counted price x multiplier divided by units x baseline multiplier, where
\* the counted price of a leg is its price or, when that is not positive, its
\* positive average cost, and a leg without a multiplier takes the baseline; the
\* side is SHORT exactly when the sum is negative; BUY 1 @ 5 with SELL 1 @ 2 at
\* multiplier 100 gives units 1, price 3 and side LONG
C11_NetPrice ==
    \A j \in 1..Len(displayed) :
        displayed[j].isStrategySummary =>
            /\ IsQuotient(displayed[j].price,
                          CountedNotional(LegsOfKey(displayed[j].strategy_id), 1),
                          UnitsOfLegs(LegsOfKey(displayed[j].strategy_id))
                              * Baseline(LegsOfKey(displayed[j].strategy_id)))
            /\ displayed[j].position_side = "SHORT"
                   <=> CountedNotional(LegsOfKey(displayed[j].strategy_id), 1).n < 0
            /\ IsExampleSpread(LegsOfKey(displayed[j].strategy_id))
                   => /\ displayed[j].qty = Num(1)
                      /\ displayed[j].price = Ratio(3, 1)
                      /\ displayed[j].position_side = "LONG"

\* the example spread is summarized at price 3
C11_Witness ==
    \E j \in 1..Len(displayed) :
        /\ displayed[j].isStrategySummary
        /\ IsExampleSpread(LegsOfKey(displayed[j].strategy_id))
        /\ displayed[j].price = Ratio(3, 1)


\* the keys of the summarized groups: those of at least 2 OPTION rows
SummarizedKeys == {key \in {KeyOf(Shown[i]) : i \in 1..Len(Shown)} \ {""} :
                      Len(LegsOfKey(key)) >= 2}

\* a row outside every summarized group
Ungrouped(row) == ~(IsOption(row) /\ KeyOf(row) \in SummarizedKeys)

\* where the first leg of a group is among the rows netted
FirstLegAt(key) ==
    CHOOSE i \in 1..Len(Shown) :
        /\ IsOption(Shown[i]) /\ KeyOf(Shown[i]) = key
        /\ \A j \in 1..(i - 1) : ~(IsOption(Shown[j]) /\ KeyOf(Shown[j]) = key)

\* where the summary rows of a group are displayed
SummaryPlaces(key) ==
    {j \in 1..Len(displayed) :
        displayed[j].isStrategySummary /\ displayed[j].strategy_id = key}

\* the place of the one summary row of a group
SummaryAt(key) == CHOOSE j \in SummaryPlaces(key) : TRUE

\* the rows displayed for a group after its summary row: its legs
LegsShown(key) ==
    IF key \in collapsedStrategies THEN 0 ELSE Len(LegsOfKey(key))

\* the place of an ungrouped row
PlaceOf(row) == CHOOSE j \in PlacesOf(row) : TRUE

\* the rows outside the summarized groups are displayed as they are, once, in
\* their order
UngroupedInOrder ==
    /\ \A i \in 1..Len(Shown) :
           Ungrouped(Shown[i]) =>
               /\ Cardinality(PlacesOf(Shown[i])) = 1
               /\ displayed[PlaceOf(Shown[i])] = Shown[i]
    /\ \A i, j \in 1..Len(Shown) :
           Ungrouped(Shown[i]) /\ Ungrouped(Shown[j]) /\ i < j
               => PlaceOf(Shown[i]) < PlaceOf(Shown[j])

\* a group has one summary row, at the place of its first leg among the
\* ungrouped rows and the other groups
SummaryAtFirstLeg(key) ==
    /\ Cardinality(SummaryPlaces(key)) = 1
    /\ \A i \in 1..Len(Shown) :
           Ungrouped(Shown[i]) =>
               IF i < FirstLegAt(key) THEN PlaceOf(Shown[i]) < SummaryAt(key)
               ELSE PlaceOf(Shown[i]) > SummaryAt(key) + LegsShown(key)
    /\ \A other \in SummarizedKeys :
           FirstLegAt(key) < FirstLegAt(other) => SummaryAt(key) < SummaryAt(other)

\* the summary row of a group is followed by its legs, in their order, unless
\* the group is collapsed, and then none of its legs is displayed
LegsFollow(key) ==
    IF key \in collapsedStrategies
    THEN \A j \in 1..Len(displayed) : \A k \in 1..Len(LegsOfKey(key)) :
             displayed[j].isStrategySummary
                 \/ displayed[j].instrument_id # LegsOfKey(key)[k].instrument_id
    ELSE /\ SummaryAt(key) + Len(LegsOfKey(key)) <= Len(displayed)
         /\ \A k \in 1..Len(LegsOfKey(key)) :
                /\ displayed[SummaryAt(key) + k].isStrategyLeg
                /\ ~displayed[SummaryAt(key) + k].isStrategySummary
                /\ displayed[SummaryAt(key) + k].instrument_id
                       = LegsOfKey(key)[k].instrument_id
         /\ \A j \in 1..Len(displayed) :
                displayed[j].isStrategyLeg /\ displayed[j].strategy_id = key
                    => j \in (SummaryAt(key) + 1)..(SummaryAt(key) + Len(LegsOfKey(key)))

StartsAtZero(line) == line # <<>> => line[1].value = Ratio(0, 1)

\* the portfolio line starts at 0% when the first dated point has a NAV above 0
PortfolioStartsAtZero ==
    chartLines.drawn /\ cleaned(chartProps.data) # <<>>
        /\ navAccessor(cleaned(chartProps.data)[1]) > 0
        => StartsAtZero(chartLines.navData)

\* C21: once the chart is drawn, the first point of the portfolio line and
\* the first point of the benchmark line have the value 0, also for a series
\* whose first points have a null bench and whose later points have a level
C21_LinesStartAtZero ==
    chartLines.drawn
        => StartsAtZero(chartLines.navData) /\ StartsAtZero(chartLines.benchData)

(***************************************************************************)
(* Claims about the rows read from the text of an account statement        *)
(***************************************************************************)
\* text.split("\n"): the lines of the raw file
SplitLines(text) ==
    LET breaks == {i \in 1..Len(text) : CharAt(text, i) = "\n"}
        break(k) == IF k = 0 THEN 0
                    ELSE IF k > Cardinality(breaks) THEN Len(text) + 1
                    ELSE CHOOSE i \in breaks : Cardinality({j \in breaks : j < i}) = k - 1
    IN  [k \in 1..(Cardinality(breaks) + 1) |-> SubSeq(text, break(k - 1) + 1, break(k) - 1)]

\* a blank row of the raw file: no cell holds anything but spaces
IsBlankLine(line) == AllIn(line, {",", " "})

\* the number of lines before the rows of the section: the title, the name of
\* the section and its header row
HeadLines == Len(SplitLines(StatementHead)) - 1

\* the raw file up to the first blank row that follows the header row
TextBeforeBlank(text) ==
    LET lines == SplitLines(text)
        blanks == {j \in (HeadLines + 1)..Len(lines) : IsBlankLine(lines[j])}
        last == IF blanks = {} THEN Len(lines)
                ELSE (CHOOSE j \in blanks : \A k \in blanks : j <= k) - 1
    IN  JoinLines(SubSeq(lines, 1, last))

\* the positions of the request the import sent, none without a request
PostedPositions ==
    IF requests = <<>> THEN <<>> ELSE requests[1].positions

\* C22: the rows attributed to a section of an account statement are rows of
\* the raw file that precede the first blank row after the section's header:
\* the positions sent are those of the file cut at that blank row (the files
\* checked name no section with a header row after the first one)
C22_SectionEndsAtBlankRow ==
    csvHandled = "statement" /\ accountId # "ALL"
        => \A before \in {TextBeforeBlank(fileText)} :
               PostedPositions = usable(parseAccountStatementPositions(parseCsvRows(before)))

\* the rows of a section end at the name of another section and at a total row
SectionEndsAtHeaderOrTotal ==
    csvHandled = "statement" /\ accountId # "ALL"
        => \A lines \in {SplitLines(fileText)} :
           \A j \in (HeadLines + 1)..Len(lines) :
               lines[j] \in {"Futures", ",Total,1500"}
                   => PostedPositions
                          = usable(parseAccountStatementPositions(
                                parseCsvRows(JoinLines(SubSeq(lines, 1, j - 1)))))
                      \/ \E k \in (HeadLines + 1)..(j - 1) : lines[k] \in {"Futures", ",Total,1500"}

(***************************************************************************)
(* Claims about the NAV rebuild and clear                                  *)
(***************************************************************************)
\* the rebuild and clear requests whose handler has not reached the end of
\* its finally block
NavHistoryRunning ==
    {i \in 1..Len(requests) :
         /\ requests[i].endpoint \in NavHistoryEndpoints
         /\ requests[i].status \in {"pending", "refreshing"}}

\* C23: at most one NAV rebuild or clear is in flight, an invocation made
\* while one runs sending nothing, and navRebuildRunning is true exactly while
\* one runs: it is false again once the request failed or succeeded and the
\* handler ended
C23_OneNavRebuildInFlight ==
    /\ Cardinality(NavHistoryRunning) <= 1
    /\ navRebuildRunning <=> NavHistoryRunning # {}

\* a rebuild failed, navRebuildRunning was false again, and a clear is running
C23_Witness ==
    /\ Len(requests) = 2
    /\ requests[1].endpoint = "/admin/rebuild-nav" /\ requests[1].status = "failed"
    /\ requests[2].endpoint = "/admin/clear-nav" /\ requests[2].status = "pending"
    /\ navRebuildRunning

(***************************************************************************)
(* Claims about the market stream                                          *)
(***************************************************************************)
\* the readyState of the current market socket, "none" without one
CurrentReadyState ==
    IF marketSocket = 0 THEN "none" ELSE webSockets[marketSocket].readyState

\* the current socket is closed, its close was counted as one of the first 5
\* and the reconnect it scheduled is pending
ReconnectScheduled ==
    /\ CurrentReadyState = "CLOSED"
    /\ reconnectTimer # 0
    /\ timeouts[reconnectTimer].status = "pending"
    /\ Len(webSockets) < MaxSockets

\* the symbol lists connectMarketStream keeps
StreamSymbols == {UniqueSymbols(symbols, <<>>) : symbols \in StreamSymbolInputs}

\* C24: once the current market socket is closed with a reconnect scheduled,
\* a new WebSocket for the same symbols is eventually created, unless the
\* dashboard asks for other symbols in the meantime
C24_ReconnectOpensSocket ==
    \A symbols \in StreamSymbols :
        (ReconnectScheduled /\ marketSymbols = symbols)
            ~> (marketSymbols # symbols \/ CurrentReadyState \in {"CONNECTING", "OPEN"})

\* C25: marketConnected is true while the current market socket is open and
\* false while it is closed, whatever the order of the calls of
\* connectMarketStream and of the events of the sockets
C25_ConnectedIsCurrent ==
    /\ CurrentReadyState = "OPEN" => marketConnected
    /\ CurrentReadyState = "CLOSED" => ~marketConnected

\* marketConnected is never true while the current socket is closed
NotConnectedWhileClosed == CurrentReadyState = "CLOSED" => ~marketConnected

(***************************************************************************)
(* Claims about the snapshot of the selected account                       *)
(***************************************************************************)
\* no snapshot request is in flight
SnapshotsSettled ==
    \A i \in 1..Len(snapshotRequests) : snapshotRequests[i].status # "pending"

\* C26: once every snapshot request is answered, the last of them with
\* success, the snapshot stored is the answer to that last request, which was
\* made for the account now selected: the answer to an earlier request has not
\* replaced it
C26_SnapshotOfSelectedAccount ==
    /\ snapshotRequests # <<>>
    /\ SnapshotsSettled
    /\ snapshotRequests[Len(snapshotRequests)].status = "done"
    => /\ snapshot.request = Len(snapshotRequests)
       /\ snapshot.url = fetchSnapshot(accountId).url

\* the last request made is a request for the account selected
LastRequestIsForSelected ==
    snapshotRequests # <<>>
        => snapshotRequests[Len(snapshotRequests)].url = fetchSnapshot(accountId).url

(***************************************************************************)
(* Claims about the tabs and the selected row                              *)
(***************************************************************************)
\* C27: in static mode the active tab is one of the tabs shown, Monitor,
\* Analyze, Activity and Admin, whatever tabs are clicked, keys pressed and
\* actions of the context menu, the prefill and the layout reset taken
C27_StaticTabs ==
    staticMode => \E k \in 1..Len(tabs(TRUE)) : tab = tabs(TRUE)[k]

\* in static mode the Trade tab is never active
NoTradeTabWhenStatic == staticMode => tab # "Trade"

\* C28: the selected row is a row of the positions table: selectedPosIndex is
\* at least 0 and, when the table has rows, below their number
C28_SelectedRowInTable ==
    /\ selectedPosIndex >= 0
    /\ displayed # <<>> => selectedPosIndex < Len(displayed)

\* selectedPosIndex is below the number of rows of a table that has rows
SelectedRowBelowLength == displayed # <<>> => selectedPosIndex < Len(displayed)

\* ---------------------------------------------------------------------------
\* Row conservation in strategy netting
\* ---------------------------------------------------------------------------

\* the places of the rows displayed that are not summary rows
PositionPlaces == {j \in 1..Len(displayed) : ~displayed[j].isStrategySummary}

\* the places of the summary rows
SummaryRowPlaces == {j \in 1..Len(displayed) : displayed[j].isStrategySummary}

\* C29: with every group expanded, each position the strategy filter keeps is
\* displayed exactly once among the rows that are not summary rows, no other
\* position is displayed, and there are as many summary rows as grouping keys
\* with at least 2 legs
C29_RowConservation ==
    collapsedStrategies = {} =>
        /\ \A i \in 1..Len(Shown) : Cardinality(PlacesOf(Shown[i])) = 1
        /\ Cardinality(PositionPlaces) = Len(Shown)
        /\ \A j \in PositionPlaces :
               \E i \in 1..Len(Shown) : displayed[j].instrument_id = Shown[i].instrument_id
        /\ Cardinality(SummaryRowPlaces) = Cardinality(SummarizedKeys)

\* a filter keeps some of the positions, among them a group of two legs that is
\* displayed expanded under its summary row
C29_Witness ==
    /\ collapsedStrategies = {}
    /\ strategyFilter # ""
    /\ 0 < Len(Shown) /\ Len(Shown) < Len(positions)
    /\ Cardinality(SummaryRowPlaces) = 1
    /\ Len(displayed) = Len(Shown) + 1

====
